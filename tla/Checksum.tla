------------------------------- MODULE Checksum -------------------------------
(***************************************************************************)
(* The checksum of IPv4 headers (crc16 of crc.c), over a header that is    *)
(* reduced to the words a router changes and the sum of all others.  A sum *)
(* of ten 16-bit words is far from the 32 bits the code adds them in.      *)
(***************************************************************************)
EXTENDS Integers

MaxWord == 65535
Word16 == 0..MaxWord
Byte8 == 0..255

\* version, length, addresses: six words, and the high byte of a seventh
MaxRest == (6 * 65535) + (256 * 255)

Header == [rest : 0..MaxRest, id : Word16, frag : Word16, ttl : Byte8, checksum : Word16]

Crc16Step(h) == h.rest + h.id + h.frag + h.ttl + h.checksum

FinishOnce(sum) == 65535 - (((sum \div 65536) + (sum % 65536)) % 65536)  \* mutant: one carry only

Crc16Finish(sum) ==
  LET folded == (sum \div 65536) + (sum % 65536)
  IN  65535 - ((folded + (folded \div 65536)) % 65536)

Crc16(h) == Crc16Finish(Crc16Step(h))

\* ip.checksum = 0; ip.checksum = crc16_n(&ip)
SealedOver(h) == [h EXCEPT !.checksum = Crc16(h)]  \* mutant: the old sum is not cleared
Sealed(h) == [h EXCEPT !.checksum = Crc16([h EXCEPT !.checksum = 0])]
=============================================================================
