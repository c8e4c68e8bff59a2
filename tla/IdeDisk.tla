------------------------------ MODULE IdeDisk -------------------------------
(***************************************************************************)
(* The ATA disk driver (drivers/ide.rs) as a set of outcomes: what reading *)
(* or writing one sector returns, and what the platter holds afterwards,   *)
(* for every status byte the drive can end a polling loop with.            *)
(*                                                                         *)
(* A polling loop is given the status it stops at: the first one that lets *)
(* it return, or the last of its 100,000 polls when none does.             *)
(***************************************************************************)
EXTENDS Naturals

Status == [BSY : BOOLEAN, DRDY : BOOLEAN, DRQ : BOOLEAN, ERR : BOOLEAN]

\* BSY clear and DRDY set is tested before ERR: a drive that is ready and
\* reports an error passes.
wait_ready(s) == ~s.BSY /\ s.DRDY

\* DRQ is tested before ERR.
wait_drq(s) == s.DRQ

\* IDENTIFY: no drive (the loop on BSY runs out, status 0, or ERR) leaves
\* total_sectors at 0 and is not an error; a drive that never raises DRQ is one.
identify(s, q, n) ==
  LET absent == s.BSY \/ s.ERR \/ ~(s.DRDY \/ s.DRQ)
  IN [ok |-> absent \/ wait_drq(q), total_sectors |-> IF absent \/ ~wait_drq(q) THEN 0 ELSE n]

read_sector(r, q) == wait_ready(r) /\ wait_drq(q)

\* The data goes to the drive between the second loop and the third; `stored`
\* says what the drive did with it when it then reports an error or keeps quiet.
write_sector(r, q, f, stored) ==
  LET sent == wait_ready(r) /\ wait_drq(q)
  IN [ok |-> sent /\ wait_ready(f),
      stored |-> sent /\ (f.ERR \/ ~wait_ready(f) => stored)]

\* What a caller can meet.
ReadOutcomes == {read_sector(r, q) : r, q \in Status}
WriteOutcomes == {write_sector(r, q, f, t) : r, q, f \in Status, t \in BOOLEAN}
=============================================================================
