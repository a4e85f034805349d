----------------------------- MODULE CommandLine -----------------------------
(***************************************************************************)
(* The words of a command line as strtok() returns them to the router, and *)
(* what its parsers make of them.  A word is what it is good for: an       *)
(* address, "ADDRESS/LENGTH", the name of an interface, or just a word.    *)
(***************************************************************************)
EXTENDS RoutingTable

Word(w) == <<"word", w>>
Address(a) == <<"address", a>>
Network(a, n) == <<"network", a, n>>
Name(p) == <<"name", p>>

IsAddress(t) == t[1] = "address"
IsName(t) == t[1] = "name"

\* parse_network
IsNetwork(t) == t[1] = "network" /\ t[3] <= 32

\* parse_route: "ADDRESS/LENGTH via ADDRESS dev NAME", whatever follows
BeginsRoute(words) ==
  /\ Len(words) >= 4
  /\ IsNetwork(words[1])
  /\ words[2] = Word("via")
  /\ IsAddress(words[3])
  /\ words[4] = Word("dev")

IsRoute(words) == BeginsRoute(words) /\ Len(words) >= 5 /\ IsName(words[5])

\* find_interface is called with what strtok returned, be it NULL
LacksName(words) == BeginsRoute(words) /\ Len(words) = 4

\* The target is taken as it was typed.  undeleteable is never set.
ParseRoute(words) ==
  [target |-> words[1][2], prefix |-> words[1][3], gateway |-> words[3][2],
   ifc |-> words[5][2], undeletable |-> TRUE]

\* process_cmd_arp: "ADDRESS NAME", whatever follows
IsQuery(words) == Len(words) >= 2 /\ IsAddress(words[1]) /\ IsName(words[2])

\* without another word, "route" means "route list"
Subcommand(words) == IF words = <<>> THEN Word("list") ELSE words[1]
=============================================================================
