-------------------------------- MODULE BooksIndex --------------------------------
(***************************************************************************)
(* How the local game server finds a book in the decompressed books: one   *)
(* pass over the lines, trusted only if it accounts for every id the       *)
(* weights can draw, otherwise a scan of the JSON values.                  *)
(*                                                                         *)
(* The file is a sequence of tokens: a record begins with its id, has      *)
(* nested objects and text, and ends with a brace; lines and blanks are    *)
(* anywhere.  Every file of at most MaxLength tokens is built, token by    *)
(* token.                                                                  *)
(***************************************************************************)
EXTENDS Naturals, Sequences

CONSTANTS Ids, MaxLength,
          BlankBetween  \* whether records on one line can have a blank between them

\* 0 stands for no id.
ASSUME IndexAssumption ==
  /\ MaxLength \in Nat
  /\ 0 \notin Ids

VARIABLES layout, depth

indexVars == <<layout, depth>>

Token(k) == [k |-> k, id |-> 0]
Open(id) == [k |-> "open", id |-> id]
Spaces == {"line", "blank"}
Kind(p) == layout[p].k
Last == IF layout = <<>> THEN "none" ELSE layout[Len(layout)].k

IndexTypeOK == depth \in 0..2 /\ Len(layout) <= MaxLength

IndexInit == layout = <<>> /\ depth = 0

Put(token, d) == Len(layout) < MaxLength /\ layout' = Append(layout, token) /\ depth' = d

Used(id) == \E p \in 1..Len(layout) : layout[p] = Open(id)

BeginRecord(id) ==
  /\ depth = 0 /\ ~Used(id)
  /\ Last = "blank" => BlankBetween \/ \A p \in 1..Len(layout) : Kind(p) # "close" \/ \E q \in p..Len(layout) : Kind(q) = "line"
  /\ Put(Open(id), 1)

EndRecord == depth = 1 /\ Put(Token("close"), 0)
Nest == depth = 1 /\ Last # "out" /\ Put(Token("in"), 2)
Unnest == depth = 2 /\ Put(Token("out"), 1)
Text == depth > 0 /\ Last # "text" /\ Put(Token("text"), depth)
Space(k) == Put(Token(k), depth)

IndexNext ==
  \/ \E id \in Ids : BeginRecord(id)
  \/ EndRecord \/ Nest \/ Unnest \/ Text
  \/ \E k \in Spaces : Space(k)

IndexSpec == IndexInit /\ [][IndexNext]_indexVars

(***************************************************************************)
(* A range is the positions after the first to the second, with the id the *)
(* bytes begin with.                                                       *)
(***************************************************************************)
Inside(a, b) == {p \in a + 1 .. b : Kind(p) \notin Spaces}
Lowest(S) == CHOOSE p \in S : \A q \in S : p <= q
Highest(S) == CHOOSE p \in S : \A q \in S : p >= q

(* read_id_field: 0 where the bytes do not begin with a record. *)
IdAt(a, b) == IF Inside(a, b) = {} THEN 0 ELSE layout[Lowest(Inside(a, b))].id

Breaks == {0, Len(layout) + 1} \cup {p \in 1..Len(layout) : Kind(p) = "line"}
Lines == {l \in Breaks \X Breaks : l[1] < l[2] /\ ~\E p \in Breaks : l[1] < p /\ p < l[2]}
Filled == {l \in Lines : Inside(l[1], l[2] - 1) # {}}

(* "}{" *)
Adjacent_Never(l) == FALSE

Adjacent(l) ==
  \E p \in l[1] + 1 .. l[2] - 2 : Kind(p) \in {"close", "out"} /\ Kind(p + 1) \in {"open", "in"}

Clean(l) ==
  /\ Kind(Highest(Inside(l[1], l[2] - 1))) \in {"close", "out"}
  /\ ~Adjacent(l) /\ IdAt(l[1], l[2] - 1) # 0

LineIndex == {<<IdAt(l[1], l[2] - 1), l[1], l[2] - 1>> : l \in {m \in Filled : Clean(m)}}
LineIndexComplete == \A l \in Filled : Clean(l)

(* index_by_json_stream: a value begins where the one before it ended. *)
ValueEnds == {0} \cup {p \in 1..Len(layout) : Kind(p) = "close"}
JsonIndex ==
  {<<IdAt(e[1], e[2]), e[1], e[2]>> :
     e \in {f \in ValueEnds \X ValueEnds : f[1] < f[2] /\ ~\E p \in ValueEnds : f[1] < p /\ p < f[2]}}

Covers(index, required) == \A id \in required : \E r \in index : r[1] = id

BuildIndex(required) ==
  IF LineIndexComplete /\ Covers(LineIndex, required) THEN LineIndex ELSE JsonIndex

(* read_event parses the range: one record, blanks around it allowed. *)
Reads(r) ==
  /\ Kind(Lowest(Inside(r[2], r[3]))) = "open" /\ layout[Lowest(Inside(r[2], r[3]))].id = r[1]
  /\ Kind(Highest(Inside(r[2], r[3]))) = "close"
  /\ \A p \in Inside(r[2], r[3]) : Kind(p) = "close" => p = Highest(Inside(r[2], r[3]))

(* Whatever the layout of the file, every id the weights can draw leads to its
   own whole record: records that share a line, or spread over several, are
   found by the scan when the lines do not show them. *)
DrawsAreRead ==
  depth = 0 =>
    \A required \in SUBSET {id \in Ids : Used(id)} :
      LET index == BuildIndex(required)
      IN  \A id \in required : \E r \in index : r[1] = id /\ Reads(r)

(* What lgs draws it reads whole (build_index and read_event). *)
RecordsSound == IndexTypeOK /\ DrawsAreRead

===============================================================================
