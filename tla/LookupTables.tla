--------------------------- MODULE LookupTables ---------------------------
(***************************************************************************)
(* A mode's lookup table and the two programs that read it: lgs, which     *)
(* draws a row by weight (parse_weights, weighted_pick) and finds a        *)
(* record's bytes in the books index (IdIndex::get); and the server, which *)
(* judges the table (mode_stats_from_rows, mode_analysis).                 *)
(*                                                                         *)
(* The table grows by one parsed line at a time, so that every table of    *)
(* the bounds is a state and the algorithms are compared with their        *)
(* reference definitions on each.  Costs are 1: a payout, in hundredths in *)
(* the code, is here the number of the bets it pays, and a probability is  *)
(* an integer weight over the total.  Floating point is not modelled.      *)
(***************************************************************************)
EXTENDS Integers, Sequences, FiniteSets, FiniteSetsExt, SequencesExt, TLC

CONSTANTS Weights,     \* the weights a line may have
          Payouts,     \* the payout multipliers a line may have
          MaxRows,     \* lines of a table (bound)
          MaxWord,     \* the largest u64: a total above it is a parse error
          Edges,       \* DIST_EDGES: the ascending edges of the win buckets
          TopTail,        \* TAIL is the fraction TopTail[1] / TopTail[2]
          MaxOdds      \* the longest odds of a top win that is achievable

VARIABLES table,       \* the rows parsed so far; row i is event i
          entered      \* the ids of the books index, ascending, as finish leaves them

tableVars == <<table, entered>>

TableTypeOK == /\ table \in Seq([weight : Weights, payout : Payouts])
               /\ Len(table) <= MaxRows
               /\ entered \subseteq 0..(2 * MaxRows)

---------------------------------------------------------------------------
\* The sampler lgs draws from.

\* cum_weights: the running total after each row.
CumWeights(t) ==
  LET cum[i \in 0..Len(t)] == IF i = 0 THEN 0 ELSE cum[i - 1] + t[i].weight
  IN  [i \in 1..Len(t) |-> cum[i]]

Total(t) == IF t = <<>> THEN 0 ELSE CumWeights(t)[Len(t)]

\* A line is kept while the total fits a u64 (checked_add).
Parses(t) == Total(t) <= MaxWord

\* The search of weighted_pick, over positions 0 .. n-1: leftwards unless the
\* running total at the middle is not beyond the pick.
TooLow_Strict(cum, mid, pick) == cum[mid + 1] < pick

TooLow(cum, mid, pick) == cum[mid + 1] <= pick

Search(cum, pick) ==
  LET n == Len(cum)
      go[lo \in 0..n, hi \in 0..n] ==
        LET mid == (lo + hi) \div 2
        IN  IF lo >= hi THEN lo
            ELSE IF TooLow(cum, mid, pick) THEN go[mid + 1, hi] ELSE go[lo, mid]
  IN  go[0, n - 1]

\* The row drawn for the random word r: r is reduced by the total first.
WeightedPick(t, r) == Search(CumWeights(t), r % Total(t)) + 1

---------------------------------------------------------------------------
\* The books index: sorted ranges, found by bisection.

\* IdIndex::get over the ids in ascending order: 0 when the id is absent, else
\* its place.
GetRange(ids, id) ==
  LET n == Len(ids)
      go[lo \in 0..n, hi \in 0..n] ==
        LET mid == lo + ((hi - lo) \div 2)
        IN  IF lo >= hi THEN 0
            ELSE IF ids[mid + 1] = id THEN mid + 1
            ELSE IF ids[mid + 1] < id THEN go[mid + 1, hi] ELSE go[lo, mid]
  IN  go[0, n]

---------------------------------------------------------------------------
\* What the server says of the table.

\* The total weight of the rows a test selects.
MassOf(t, S) == FoldSet(LAMBDA i, m : m + t[i].weight, 0, S)

Winning(t) == {i \in DOMAIN t : t[i].payout > 0}

\* mode_stats_from_rows refuses a table without weight; nothing is analysed.
Analysed(t) == t # <<>> /\ Total(t) > 0

\* hit_rate of the two passes, as weights: over the winners, and as what the
\* zero rows leave.
HitRate(t) == MassOf(t, Winning(t))

HitRateLeft(t) == Total(t) - MassOf(t, {i \in DOMAIN t : t[i].payout = 0})

\* max_payout and max_payout_w: the weight on the top multiplier, begun again
\* at every higher row.
TopOf(t) ==
  LET top[i \in 0..Len(t)] ==
        IF i = 0 THEN [payout |-> 0, weight |-> 0]
        ELSE LET p == top[i - 1]
             IN  CASE t[i].payout > p.payout -> t[i]
                   [] t[i].payout = p.payout -> [p EXCEPT !.weight = @ + t[i].weight]
                   [] OTHER -> p
  IN  top[Len(t)]

\* cvar_top_tail: walk the rows from the highest payout and take the tail's
\* mass, the last row only as far as the tail reaches.  All masses are times
\* TopTail[2]; the result is the sum whose mean is the CVaR.
Take_Whole(p, remaining) == IF remaining > 0 THEN p ELSE 0

Take(p, remaining) == IF p < remaining THEN p ELSE remaining

CvarTopTail(t) ==
  LET sorted == SetToSortSeq(DOMAIN t, LAMBDA i, j :
                  t[i].payout > t[j].payout \/ (t[i].payout = t[j].payout /\ i < j))
      walk[k \in 0..Len(t)] ==
        IF k = 0 THEN [remaining |-> Total(t) * TopTail[1], acc |-> 0]
        ELSE LET r == t[sorted[k]]
                 take == Take(r.weight * TopTail[2], walk[k - 1].remaining)
             IN  IF walk[k - 1].remaining <= 0 THEN walk[k - 1]
                 ELSE [remaining |-> walk[k - 1].remaining - take,
                       acc |-> walk[k - 1].acc + take * r.payout]
  IN  walk[Len(t)].acc

\* bucket_index: the first bucket whose upper edge is not below the payout, the
\* open last one otherwise.
BucketIndex(m) ==
  LET fits == {i \in 1..(Len(Edges) - 1) : m <= Edges[i + 1]}
  IN  IF fits = {} THEN Len(Edges) ELSE CHOOSE i \in fits : \A j \in fits : i <= j

\* distribution: the winners' weight by bucket, up to the last bucket with any.
Distribution(t) ==
  LET mass == [b \in 1..Len(Edges) |->
                 MassOf(t, {i \in Winning(t) : BucketIndex(t[i].payout) = b})]
      keep == {b \in 1..Len(Edges) : mass[b] > 0}
  IN  SubSeq(mass, 1, IF keep = {} THEN 0
                      ELSE CHOOSE b \in keep : \A c \in keep : c <= b)

\* max_win_odds, and the check of it: no odds are reported as 0.
MaxWinOdds(t) == IF TopOf(t).weight > 0 THEN Total(t) \div TopOf(t).weight ELSE 0

MaxWinCheck(t) == MaxWinOdds(t) <= MaxOdds

---------------------------------------------------------------------------
TableInit == table = <<>> /\ entered = {}

\* One line of the lookup table, unless the total would overflow.  (The two
\* parsers share nothing: a behaviour follows one of them.)
ParseLine == /\ entered = {}
             /\ Len(table) < MaxRows
             /\ \E w \in Weights, p \in Payouts :
                  /\ Parses(Append(table, [weight |-> w, payout |-> p]))
                  /\ table' = Append(table, [weight |-> w, payout |-> p])
             /\ UNCHANGED entered

\* One more record of the books file; the ids need not follow each other.
IndexRecord == /\ table = <<>>
               /\ \E id \in 0..(2 * MaxRows) : entered' = entered \cup {id}
               /\ UNCHANGED table

TableNext == ParseLine \/ IndexRecord

---------------------------------------------------------------------------
\* weighted_pick: over all random words, each row is drawn as often as its
\* weight says, up to the one reduction of the word by the total; a row of
\* weight 0 is never drawn.  The bisection over running totals must neither
\* skip a row at a boundary nor fall on a weightless one.
DrawnByWeight ==
  Total(table) > 0 =>
    \A i \in DOMAIN table :
      LET drawn == Cardinality({r \in 0..MaxWord : WeightedPick(table, r) = i})
          times == (MaxWord + 1) \div Total(table)
      IN  /\ drawn >= table[i].weight * times
          /\ drawn <= table[i].weight * (times + 1)

\* IdIndex::get: an id of the index is found at its own place and no other id is
\* found: a drawn event must never be answered with another event's bytes.
FoundExactly ==
  LET ids == SetToSortSeq(entered, <)
  IN  \A id \in 0..(2 * MaxRows) :
        IF id \in entered THEN ids[GetRange(ids, id)] = id ELSE GetRange(ids, id) = 0

\* Both searches.
SearchesExact == DrawnByWeight /\ FoundExactly

\* cvar_top_tail: the sum over the tail is the sum, over every level of payout,
\* of the tail's mass that pays at least that much, whatever the order of the
\* rows, their ties and where the tail cuts a row.
CvarExact ==
  Analysed(table) =>
    CvarTopTail(table) =
      FoldSet(LAMBDA v, s :
                s + Take(MassOf(table, {i \in DOMAIN table : table[i].payout >= v})
                           * TopTail[2], Total(table) * TopTail[1]),
              0, 1..Max(Payouts))

\* distribution: a bucket holds exactly the weight paying above its lower edge
\* and at most its upper one, and the buckets together the hit rate of both
\* passes ("computed directly so it matches ModeStats exactly").
BucketsExact ==
  Analysed(table) =>
    LET d == Distribution(table)
    IN  /\ \A b \in DOMAIN d :
             d[b] = MassOf(table, {i \in DOMAIN table :
                                     /\ table[i].payout > Edges[b]
                                     /\ b < Len(Edges) => table[i].payout <= Edges[b + 1]})
        /\ FoldSeq(LAMBDA x, y : x + y, 0, d) = HitRate(table)
        /\ HitRateLeft(table) = HitRate(table)

\* The figures of the analysis agree with their definitions.
AnalysisExact == CvarExact /\ BucketsExact

\* "Max win achievable": a table that passes the check can draw a row that pays
\* its top multiplier.  It fails: a top row of weight 0 has odds 0, which is
\* below any limit.
MaxWinAchievable ==
  (Analysed(table) /\ MaxWinCheck(table)) =>
    \E i \in DOMAIN table : /\ table[i].weight > 0
                            /\ \A j \in DOMAIN table : table[j].payout <= table[i].payout

=============================================================================
