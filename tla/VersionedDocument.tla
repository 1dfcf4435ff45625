-------------------------- MODULE VersionedDocument --------------------------
(* What the workspace promises about one document: it is created once, at   *)
(* revision 1; every change of it adds one to the revision and moves it      *)
(* forward in the workspace's sequence; a removal keeps a tombstone with     *)
(* the last data, and only a write brings the document back.                 *)
EXTENDS Integers

VARIABLE row

Init == row.state = "none" /\ row.revision = 0 /\ row.seq = 0

Advances == row'.seq > row.seq /\ row'.revision = row.revision + 1

Create == row.state = "none" /\ row'.state = "live" /\ Advances

Write == row.state # "none" /\ row'.state = "live" /\ Advances

Remove ==
    /\ row.state # "none"
    /\ row'.state = "dead" /\ row'.data = row.data
    /\ Advances

Next == Create \/ Write \/ Remove

=============================================================================
