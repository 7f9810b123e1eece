--------------------------- MODULE MCRecommendations ---------------------------
(***************************************************************************)
(* A small instance of Recommendations, with history: what each PATCH      *)
(* said, which have committed, and which others of the same recommendation *)
(* were in flight when its first decision was committed.                   *)
(***************************************************************************)
EXTENDS Recommendations

VARIABLES said,     \* number of a PATCH -> its recommendation and body
          ended,    \* numbers of the PATCHes that have committed
          rivals    \* recommendation -> PATCHes that may still have the last word

history == <<said, ended, rivals>>

HistoryInit == Init /\ said = <<>> /\ ended = {} /\ rivals = [id \in {} |-> {}]

Passes(h) == h \notin DOMAIN open /\ h \in DOMAIN open'

Ends(h) == h \in DOMAIN open /\ rows' # rows /\ h \notin DOMAIN open'

NumbersOn(id) == {open[h].num : h \in {g \in DOMAIN open : open[g].id = id}}

HistoryNext ==
  /\ Next
  /\ said' = [n \in 1 .. passed' |->
                IF n \in DOMAIN said THEN said[n]
                ELSE CHOOSE r \in {open'[h] : h \in DOMAIN open'} : r.num = n]
  /\ ended' = ended \cup {open[h].num : h \in {g \in Handlers : Ends(g)}}
  /\ LET first == {open[h].id : h \in {g \in Handlers : Ends(g)}} \ DOMAIN rivals
     IN  rivals' = [id \in DOMAIN rivals \cup first |->
                      IF id \in first THEN NumbersOn(id) ELSE rivals[id]]

HistorySpec == HistoryInit /\ [][HistoryNext]_<<vars, history>> /\ PatchFairness
-----------------------------------------------------------------------------
(* Whatever overlaps, a resolved row tells one committed PATCH's decision: *)
(* status, time and the comment given with it.  When it gave none, the     *)
(* comment shown is at least a committed one for this recommendation.      *)
DecisionIsWhole ==
  \A id \in DOMAIN rows : rows[id].status # "PENDING" =>
    LET row == rows[id]
        By(n) == said[n].id = id /\ said[n].data.user_comment = row.user_comment
    IN  /\ row.resolved_at \in ended
        /\ said[row.resolved_at].id = id
        /\ said[row.resolved_at].data.status = row.status
        /\ \/ By(row.resolved_at)
           \/ said[row.resolved_at].data.user_comment = NoComment /\ \E n \in ended : By(n)

(* Only a PATCH already in flight when the first decision was committed    *)
(* can overwrite it: every later one meets the 409.                        *)
OnlyRivalsOverwrite ==
  \A id \in DOMAIN rows :
    rows[id].status # "PENDING" => rows[id].resolved_at \in rivals[id]
=============================================================================
