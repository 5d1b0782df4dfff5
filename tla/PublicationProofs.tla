-------------------------- MODULE PublicationProofs --------------------------
(***************************************************************************)
(* Proofs about the outgoing side of the messenger adapter: the verdicts   *)
(* of publications, the turns of proxies, accounts and sessions, the       *)
(* platforms' answers and the metrics of posts, for any batches,           *)
(* platforms, routes, proxies, senders, publications and posts.            *)
(***************************************************************************)
EXTENDS MCPublicationDelivery, FiniteSetTheorems, WellFoundedInduction, TLAPS

(***************************************************************************)
(* Publication: what a batch tells its caller, the audit and consumers.    *)
(***************************************************************************)

Working == {"leasing", "primary", "fallback", "sleeping"}

NoLine(b, pl) ==
    \A verdict \in Verdict : LineOf(verdict, b, pl) \notin report \cup audit \cup events

Untouched(b, pl) == posts[<<b, pl>>] = 0 /\ <<b, pl>> \notin lost

\* Where a batch is: of the platforms it still has before it nothing is told, and
\* nothing was posted there but for the one at work, whose post is in flight or has
\* lost its answer.
BatchInv(b) ==
    /\ IsInjective(batch[b].todo)
    /\ batch[b].step \in Working \cup {"next"} => batch[b].todo # <<>>
    /\ batch[b].step = "new" => \A pl \in Platforms : NoLine(b, pl) /\ Untouched(b, pl)
    /\ \A pl \in Range(batch[b].todo) :
          /\ NoLine(b, pl)
          /\ Untouched(b, pl) \/ (batch[b].step \in Working /\ pl = Here(b))
    /\ batch[b].posted =>
          batch[b].step \in {"primary", "fallback"} /\ posts[<<b, Here(b)>>] > 0
    /\ batch[b].step \in Working /\ ~batch[b].posted /\ <<b, Here(b)>> \notin lost =>
          posts[<<b, Here(b)>>] = 0
    /\ batch[b].step = "sleeping" => batch[b].attempt < MaxAttempts
    /\ batch[b].step = "fallback" => batch[b].routes # <<>>

\* What is told of one batch is true.
BatchTrue(b) ==
    /\ \A pl \in Platforms :
          /\ LineOf("succeeded", b, pl) \in report =>
                 posts[<<b, pl>>] > 0 /\ LineOf("succeeded", b, pl) \in events
          /\ LineOf("failed", b, pl) \in report /\ posts[<<b, pl>>] > 0 =>
                 \/ <<b, pl>> \in lost
                 \/ LineOf("succeeded", b, pl) \in audit \ events
          /\ <<b, pl>> \notin lost => posts[<<b, pl>>] <= 1
          /\ ~ \A verdict \in Verdict : LineOf(verdict, b, pl) \in audit
    /\ batch[b].stop /\ (\E pl \in Platforms : LineOf("failed", b, pl) \in report) =>
          batch[b].step = "done"
    /\ batch[b].step = "done" /\ ~batch[b].stop => batch[b].todo = <<>>

VerdictsInv == TypeOK /\ \A b \in Batches : BatchInv(b) /\ BatchTrue(b)

LEMMA VerdictsFollow == VerdictsInv => VerdictsAreTrue
  <1> SUFFICES ASSUME VerdictsInv PROVE VerdictsAreTrue
    OBVIOUS
  <1>1. ReportIsTrue /\ PostedOnce
    BY DEF VerdictsInv, BatchTrue, ReportIsTrue, PostedOnce
  <1>2. OneVerdict
    BY DEF VerdictsInv, BatchTrue, BatchInv, NoLine, OneVerdict
  <1>3. ASSUME NEW b \in Batches, batch[b].step = "done", NEW pl \in Range(batch[b].todo)
        PROVE  posts[<<b, pl>>] = 0
    BY <1>3 DEF VerdictsInv, BatchInv, Untouched, Working
  <1>4. StopOnErrorHolds
    BY <1>3 DEF VerdictsInv, BatchTrue, StopOnErrorHolds, At
  <1> QED
    BY <1>1, <1>2, <1>4 DEF VerdictsInv, VerdictsAreTrue

LEMMA VerdictsInitially == Init => VerdictsInv
  <1> SUFFICES ASSUME Init PROVE VerdictsInv
    OBVIOUS
  <1>1. DefaultEntries \in [Platforms -> PlatformStatus]
    <2>1. \A pl \in DOMAIN Overrides : Overrides[pl] \in PlatformStatus
      BY DeliveryAssumption DEF Range
    <2>2. \A position : CatalogStatus(position) \in PlatformStatus
      BY DEF CatalogStatus, PlatformStatus
    <2> QED
      BY <2>1, <2>2 DEF DefaultEntries
  <1>2. \A b \in Batches :
           batch[b] = [step |-> "new", todo |-> <<>>, attempt |-> 0, routes |-> <<>>,
                       posted |-> FALSE, stop |-> FALSE]
    BY DEF Init
  <1>3. batch \in [Batches -> Batch]
    BY DeliveryAssumption DEF Init, Batch
  <1>4. posts \in [Batches \X Platforms -> 0 .. MaxPosts]
        /\ \A b \in Batches, pl \in Platforms : posts[<<b, pl>>] = 0
    BY DEF Init, MaxPosts
  <1>5. TypeOK
    BY <1>1, <1>3, <1>4, DeliveryAssumption DEF TypeOK, Init
  <1>6. ASSUME NEW b \in Batches PROVE BatchInv(b) /\ BatchTrue(b)
    <2>1. IsInjective(batch[b].todo) /\ Range(batch[b].todo) = {}
      BY <1>2 DEF IsInjective, Range
    <2>2. \A pl \in Platforms : NoLine(b, pl) /\ Untouched(b, pl)
      BY <1>4 DEF Init, NoLine, Untouched
    <2>3. BatchInv(b)
      BY <1>2, <1>4, <2>1, <2>2 DEF BatchInv, Working
    <2>4. report = {} /\ audit = {}
      BY DEF Init
    <2>5. batch[b].step = "new" /\ batch[b].stop = FALSE
      BY <1>2
    <2>6. ASSUME NEW pl \in Platforms
          PROVE  <<b, pl>> \notin lost => posts[<<b, pl>>] <= 1
      BY <1>4
    <2>7. \A pl \in Platforms : ~ \A verdict \in Verdict : LineOf(verdict, b, pl) \in audit
      BY <2>4 DEF Verdict
    <2>8. BatchTrue(b)
      BY <2>4, <2>5, <2>6, <2>7 DEF BatchTrue
    <2> QED
      BY <2>3, <2>8
  <1> QED
    BY <1>5, <1>6 DEF VerdictsInv

\* The first of the platforms a batch has before it, and the others.
LEMMA Platform ==
    ASSUME TypeOK, NEW b \in Batches, IsInjective(batch[b].todo), batch[b].todo # <<>>
    PROVE  /\ Here(b) \in Platforms /\ Here(b) \in Range(batch[b].todo)
           /\ Tail(batch[b].todo) \in Seq(Platforms) /\ IsInjective(Tail(batch[b].todo))
           /\ Range(Tail(batch[b].todo)) = Range(batch[b].todo) \ {Here(b)}
  <1> DEFINE todo == batch[b].todo
  <1>1. todo \in Seq(Platforms)
    BY DEF TypeOK, Batch
  <1>2. /\ Len(todo) \in Nat \ {0} /\ DOMAIN todo = 1 .. Len(todo)
        /\ Head(todo) = todo[1] /\ todo[1] \in Platforms
    BY <1>1
  <1>3. /\ Tail(todo) \in Seq(Platforms) /\ Len(Tail(todo)) = Len(todo) - 1
        /\ DOMAIN Tail(todo) = 1 .. (Len(todo) - 1)
        /\ \A i \in 1 .. (Len(todo) - 1) : Tail(todo)[i] = todo[i + 1]
    BY <1>1
  <1>4. \A i, j \in 1 .. Len(todo) : todo[i] = todo[j] => i = j
    BY <1>2 DEF IsInjective
  <1>5. IsInjective(Tail(todo))
    <2>1. ASSUME NEW i \in 1 .. (Len(todo) - 1), NEW j \in 1 .. (Len(todo) - 1),
                 Tail(todo)[i] = Tail(todo)[j]
          PROVE  i = j
      <3>1. i + 1 \in 1 .. Len(todo) /\ j + 1 \in 1 .. Len(todo)
        BY <1>2
      <3>2. i + 1 = j + 1
        BY <2>1, <3>1, <1>3, <1>4
      <3> QED
        BY <3>2, <1>2
    <2> QED
      BY <2>1, <1>3 DEF IsInjective
  <1>6. Range(todo) = {todo[i] : i \in 1 .. Len(todo)}
        /\ Range(Tail(todo)) = {Tail(todo)[i] : i \in 1 .. (Len(todo) - 1)}
    BY <1>2, <1>3 DEF Range
  <1>7. ASSUME NEW pl \in Range(Tail(todo)) PROVE pl \in Range(todo) /\ pl # todo[1]
    <2>1. PICK i \in 1 .. (Len(todo) - 1) : pl = todo[i + 1]
      BY <1>3, <1>6
    <2>2. i + 1 \in 1 .. Len(todo) /\ i + 1 # 1 /\ 1 \in 1 .. Len(todo)
      BY <1>2
    <2> QED
      BY <2>1, <2>2, <1>4, <1>6
  <1>8. ASSUME NEW pl \in Range(todo), pl # todo[1] PROVE pl \in Range(Tail(todo))
    <2>1. PICK i \in 1 .. Len(todo) : pl = todo[i]
      BY <1>6
    <2>2. i - 1 \in 1 .. (Len(todo) - 1) /\ (i - 1) + 1 = i
      BY <2>1, <1>8, <1>2
    <2>3. Tail(todo)[i - 1] = todo[i]
      BY <2>2, <1>3
    <2> QED
      BY <2>1, <2>2, <2>3, <1>6
  <1> QED
    BY <1>2, <1>3, <1>5, <1>6, <1>7, <1>8 DEF Here

\* A step of one batch leaves what is told of the others.
LEMMA OtherBatches ==
    ASSUME VerdictsInv, NEW b \in Batches, NEW c \in Batches, c # b,
           batch'[c] = batch[c],
           \A pl \in Platforms : posts'[<<c, pl>>] = posts[<<c, pl>>],
           \A pl \in Platforms : <<c, pl>> \in lost' <=> <<c, pl>> \in lost,
           \A pl \in Platforms, verdict \in Verdict :
              /\ LineOf(verdict, c, pl) \in report' <=> LineOf(verdict, c, pl) \in report
              /\ LineOf(verdict, c, pl) \in audit' <=> LineOf(verdict, c, pl) \in audit
              /\ LineOf(verdict, c, pl) \in events' <=> LineOf(verdict, c, pl) \in events
    PROVE  (BatchInv(c) /\ BatchTrue(c))'
  <1>1. BatchInv(c) /\ BatchTrue(c)
    BY DEF VerdictsInv
  <1>2. Range(batch[c].todo) \subseteq Platforms
    BY DEF VerdictsInv, TypeOK, Batch, Range
  <1>3. batch[c].todo # <<>> => Here(c) \in Platforms
    BY <1>1, Platform DEF VerdictsInv, BatchInv
  <1>4. Here(c)' = Here(c)
    BY DEF Here
  <1>5. \A pl \in Platforms : /\ NoLine(c, pl)' <=> NoLine(c, pl)
                              /\ Untouched(c, pl)' <=> Untouched(c, pl)
    BY DEF NoLine, Untouched
  <1>6. BatchInv(c)'
    BY <1>1, <1>2, <1>3, <1>4, <1>5 DEF BatchInv, Working
  <1>7. BatchTrue(c)'
    BY <1>1 DEF BatchTrue, Verdict
  <1> QED
    BY <1>6, <1>7

\* A batch at work goes on with the platform it is at.
LEMMA GoesOn ==
    ASSUME VerdictsInv, NEW b \in Batches, batch[b].step \in Working \cup {"next"},
           batch' \in [Batches -> Batch], \A c \in Batches \ {b} : batch'[c] = batch[c],
           batch'[b].todo = batch[b].todo, batch'[b].stop = batch[b].stop,
           batch'[b].step \in Working, batch'[b].posted = FALSE,
           batch'[b].step = "sleeping" => batch'[b].attempt < MaxAttempts,
           batch'[b].step = "fallback" => batch'[b].routes # <<>>,
           NoteLost(b), UNCHANGED <<books, posts>>
    PROVE  /\ \A c \in Batches : (BatchInv(c) /\ BatchTrue(c))'
           /\ lost' \subseteq Batches \X Platforms
  <1>1. BatchInv(b) /\ BatchTrue(b) /\ TypeOK
    BY DEF VerdictsInv
  <1>2. batch[b].todo # <<>> /\ Here(b) \in Platforms /\ Here(b)' = Here(b)
    BY <1>1, Platform DEF BatchInv, Here
  <1>3. Range(batch[b].todo) \subseteq Platforms
    BY <1>1 DEF TypeOK, Batch, Range
  <1>4. report' = report /\ audit' = audit /\ events' = events /\ posts' = posts
    BY DEF books
  <1>5. lost' = lost \/ (batch[b].posted /\ lost' = lost \cup {<<b, Here(b)>>})
    BY DEF NoteLost
  <1>6. ASSUME NEW c \in Batches, c # b PROVE (BatchInv(c) /\ BatchTrue(c))'
    <2>1. \A pl \in Platforms : <<c, pl>> \in lost' <=> <<c, pl>> \in lost
      BY <1>5, <1>6
    <2> QED
      BY <1>4, <1>6, <2>1, OtherBatches
  <1>7. \A pl \in Platforms : NoLine(b, pl)' <=> NoLine(b, pl)
    BY <1>4 DEF NoLine
  <1>8. \A pl \in Platforms : pl # Here(b) => (Untouched(b, pl)' <=> Untouched(b, pl))
    BY <1>4, <1>5 DEF Untouched
  <1>9. BatchInv(b)'
    <2>1. \A pl \in Range(batch[b].todo) :
             /\ NoLine(b, pl)'
             /\ Untouched(b, pl)' \/ pl = Here(b)
      BY <1>1, <1>3, <1>7, <1>8 DEF BatchInv
    <2>2. <<b, Here(b)>> \notin lost' => posts[<<b, Here(b)>>] = 0
      <3>1. CASE batch[b].step = "next"
        <4>1. Here(b) \in Range(batch[b].todo)
          BY <1>1, <1>2, Platform DEF BatchInv
        <4> QED
          BY <3>1, <4>1, <1>1, <1>5 DEF BatchInv, Untouched, Working
      <3>2. CASE batch[b].step \in Working
        <4>1. CASE batch[b].posted
          BY <4>1 DEF NoteLost
        <4>2. CASE ~batch[b].posted
          BY <3>2, <4>2, <1>1, <1>5 DEF BatchInv
        <4> QED
          BY <4>1, <4>2
      <3> QED
        BY <3>1, <3>2
    <2>3. IsInjective(batch'[b].todo) /\ batch'[b].todo # <<>>
      BY <1>1, <1>2 DEF BatchInv
    <2> QED
      BY <1>2, <1>4, <2>1, <2>2, <2>3 DEF BatchInv, Working
  <1>10. BatchTrue(b)'
    <2>1. batch[b].step # "done" /\ batch'[b].step # "done"
      BY DEF Working
    <2>2. lost \subseteq lost'
      BY <1>5
    <2>3. ~(batch[b].stop /\ \E pl \in Platforms : LineOf("failed", b, pl) \in report)
      BY <1>1, <2>1 DEF BatchTrue
    <2>4. ASSUME NEW pl \in Platforms
          PROVE  <<b, pl>> \notin lost' => posts'[<<b, pl>>] <= 1
      BY <1>1, <1>4, <2>2 DEF BatchTrue
    <2>5. ASSUME NEW pl \in Platforms
          PROVE  /\ LineOf("succeeded", b, pl) \in report' =>
                      posts'[<<b, pl>>] > 0 /\ LineOf("succeeded", b, pl) \in events'
                 /\ LineOf("failed", b, pl) \in report' /\ posts'[<<b, pl>>] > 0 =>
                      \/ <<b, pl>> \in lost'
                      \/ LineOf("succeeded", b, pl) \in audit' \ events'
                 /\ ~ \A verdict \in Verdict : LineOf(verdict, b, pl) \in audit'
      BY <1>1, <1>4, <2>2 DEF BatchTrue
    <2> QED
      BY <1>4, <2>1, <2>3, <2>4, <2>5 DEF BatchTrue
  <1>11. lost' \subseteq Batches \X Platforms
    BY <1>1, <1>2, <1>5 DEF TypeOK
  <1> QED
    BY <1>6, <1>9, <1>10, <1>11

\* A batch is done with the platform it is at: it tells its caller a verdict, and
\* the audit and the consumers learn what was recorded of it, if anything was.
LEMMA MovesOn ==
    ASSUME VerdictsInv, NEW b \in Batches, batch[b].step \in Working \cup {"next"},
           NEW verdict \in Verdict, NEW told \in Verdict, NEW noted, NEW sent,
           noted \subseteq {LineOf(told, b, Here(b))}, sent \subseteq noted,
           Onward(b, verdict), audit' = audit \cup noted, events' = events \cup sent,
           posts' = posts, lost \subseteq lost', lost' \subseteq lost \cup {<<b, Here(b)>>},
           verdict = "succeeded" =>
              posts[<<b, Here(b)>>] > 0 /\ LineOf("succeeded", b, Here(b)) \in sent,
           verdict = "failed" /\ posts[<<b, Here(b)>>] > 0 =>
              \/ <<b, Here(b)>> \in lost'
              \/ LineOf("succeeded", b, Here(b)) \in noted \ sent
    PROVE  /\ \A c \in Batches : (BatchInv(c) /\ BatchTrue(c))'
           /\ batch' \in [Batches -> Batch] /\ lost' \subseteq Batches \X Platforms
           /\ report' \subseteq Line /\ audit' \subseteq Line /\ events' \subseteq Line
  <1> DEFINE here == Here(b)
             rest == Tail(batch[b].todo)
             over == rest = <<>> \/ (verdict = "failed" /\ batch[b].stop)
  <1>1. BatchInv(b) /\ BatchTrue(b) /\ TypeOK
    BY DEF VerdictsInv
  <1>2. batch[b].todo # <<>> /\ IsInjective(batch[b].todo)
    BY <1>1 DEF BatchInv
  <1>3. /\ here \in Platforms /\ here \in Range(batch[b].todo)
        /\ rest \in Seq(Platforms) /\ IsInjective(rest)
        /\ Range(rest) = Range(batch[b].todo) \ {here}
    BY <1>1, <1>2, Platform
  <1>4. Range(batch[b].todo) \subseteq Platforms
    BY <1>1 DEF TypeOK, Batch, Range
  <1>5. report' = report \cup {LineOf(verdict, b, here)}
    BY DEF Onward, LineOf
  <1>6. batch[b] \in Batch /\ batch[b].stop \in BOOLEAN
    BY <1>1 DEF TypeOK, Batch
  <1>7. /\ batch' \in [Batches -> Batch]
        /\ batch'[b] = [step |-> IF over THEN "done" ELSE "next", todo |-> rest,
                        attempt |-> 0, routes |-> <<>>, posted |-> FALSE,
                        stop |-> batch[b].stop]
        /\ \A c \in Batches \ {b} : batch'[c] = batch[c]
    <2> DEFINE new == [step |-> IF over THEN "done" ELSE "next", todo |-> rest,
                       attempt |-> 0, routes |-> <<>>, posted |-> FALSE,
                       stop |-> batch[b].stop]
    <2>1. new \in Batch
      BY <1>3, <1>6, DeliveryAssumption DEF Batch
    <2>2. batch' = [batch EXCEPT ![b] = new]
      BY DEF Onward
    <2> HIDE DEF new
    <2>3. /\ batch' \in [Batches -> Batch] /\ batch'[b] = new
          /\ \A c \in Batches \ {b} : batch'[c] = batch[c]
      BY <1>1, <2>1, <2>2 DEF TypeOK
    <2> QED
      BY <2>3 DEF new
  <1>8. /\ batch'[b].step = (IF over THEN "done" ELSE "next") /\ batch'[b].todo = rest
        /\ batch'[b].posted = FALSE /\ batch'[b].stop = batch[b].stop
    BY <1>7
  <1>9. \A pl \in Platforms, v \in Verdict : pl # here =>
           /\ LineOf(v, b, pl) \in report' <=> LineOf(v, b, pl) \in report
           /\ LineOf(v, b, pl) \in audit' <=> LineOf(v, b, pl) \in audit
           /\ LineOf(v, b, pl) \in events' <=> LineOf(v, b, pl) \in events
           /\ <<b, pl>> \in lost' <=> <<b, pl>> \in lost
    BY <1>5 DEF LineOf
  <1>10. ASSUME NEW c \in Batches, c # b PROVE (BatchInv(c) /\ BatchTrue(c))'
    <2>1. \A pl \in Platforms, v \in Verdict :
           /\ LineOf(v, c, pl) \in report' <=> LineOf(v, c, pl) \in report
           /\ LineOf(v, c, pl) \in audit' <=> LineOf(v, c, pl) \in audit
           /\ LineOf(v, c, pl) \in events' <=> LineOf(v, c, pl) \in events
      BY <1>5, <1>10 DEF LineOf
    <2>2. \A pl \in Platforms : <<c, pl>> \in lost' <=> <<c, pl>> \in lost
      BY <1>10
    <2> QED
      BY <1>7, <1>10, <2>1, <2>2, OtherBatches
  <1>11. \A pl \in Range(rest) : NoLine(b, pl)' /\ Untouched(b, pl)'
    <2>1. \A pl \in Range(rest) : pl \in Platforms /\ pl # here /\ NoLine(b, pl) /\ Untouched(b, pl)
      BY <1>1, <1>3, <1>4 DEF BatchInv
    <2> QED
      BY <2>1, <1>9 DEF NoLine, Untouched
  <1>12. BatchInv(b)'
    <2>1. over \/ rest # <<>>
      OBVIOUS
    <2> HIDE DEF over, rest, here
    <2> QED
      BY <1>3, <1>8, <1>11, <2>1 DEF BatchInv, Working
  <1>13. NoLine(b, here)
    BY <1>1, <1>3 DEF BatchInv
  <1>14. ASSUME NEW pl \in Platforms
         PROVE  /\ LineOf("succeeded", b, pl) \in report' =>
                     posts'[<<b, pl>>] > 0 /\ LineOf("succeeded", b, pl) \in events'
                /\ LineOf("failed", b, pl) \in report' /\ posts'[<<b, pl>>] > 0 =>
                     \/ <<b, pl>> \in lost'
                     \/ LineOf("succeeded", b, pl) \in audit' \ events'
                /\ <<b, pl>> \notin lost' => posts'[<<b, pl>>] <= 1
                /\ ~ \A v \in Verdict : LineOf(v, b, pl) \in audit'
    <2>1. CASE pl # here
      BY <2>1, <1>1, <1>9 DEF BatchTrue, Verdict
    <2>2. CASE pl = here
      <3>1. \A v \in Verdict : LineOf(v, b, here) \notin report \cup audit \cup events
        BY <1>13 DEF NoLine
      <3>2. LineOf("succeeded", b, here) # LineOf("failed", b, here)
        BY DEF LineOf
      <3>3. LineOf("succeeded", b, here) \in report' => verdict = "succeeded"
        BY <3>1, <3>2, <1>5 DEF Verdict
      <3>4. LineOf("failed", b, here) \in report' => verdict = "failed"
        BY <3>1, <3>2, <1>5 DEF Verdict
      <3>5. ~ \A v \in Verdict : LineOf(v, b, here) \in audit'
        BY <3>1, <3>2 DEF Verdict
      <3>6. <<b, here>> \notin lost' => posts'[<<b, here>>] <= 1
        BY <1>1, <1>3 DEF BatchTrue
      <3>7. LineOf("succeeded", b, here) \in noted \ sent =>
               LineOf("succeeded", b, here) \in audit' \ events'
        BY <3>1 DEF Verdict
      <3> HIDE DEF here
      <3> QED
        BY <2>2, <3>3, <3>4, <3>5, <3>6, <3>7 DEF here
    <2> QED
      BY <2>1, <2>2
  <1>15. batch[b].step # "done"
    BY DEF Working
  <1>16. ~(batch[b].stop /\ \E pl \in Platforms : LineOf("failed", b, pl) \in report)
    BY <1>1, <1>15 DEF BatchTrue
  <1>17. batch'[b].stop /\ (\E pl \in Platforms : LineOf("failed", b, pl) \in report') =>
            batch'[b].step = "done"
    <2>1. CASE verdict = "failed"
      BY <2>1, <1>8
    <2>2. CASE verdict = "succeeded"
      <3>1. \A pl \in Platforms :
               LineOf("failed", b, pl) \in report' => LineOf("failed", b, pl) \in report
        BY <2>2, <1>5 DEF LineOf
      <3> QED
        BY <3>1, <1>8, <1>16
    <2> QED
      BY <2>1, <2>2 DEF Verdict
  <1>18. BatchTrue(b)'
    BY <1>8, <1>14, <1>17 DEF BatchTrue
  <1>19. \A v \in Verdict : LineOf(v, b, here) \in Line
    BY <1>3 DEF LineOf, Line
  <1>20. report' \subseteq Line /\ audit' \subseteq Line /\ events' \subseteq Line
    BY <1>1, <1>5, <1>19 DEF TypeOK
  <1>21. lost' \subseteq Batches \X Platforms
    BY <1>1, <1>3 DEF TypeOK
  <1> QED
    BY <1>7, <1>10, <1>12, <1>18, <1>20, <1>21

Told ==
    /\ batch \in [Batches -> Batch] /\ lost \subseteq Batches \X Platforms
    /\ report \subseteq Line /\ audit \subseteq Line /\ events \subseteq Line
    /\ \A c \in Batches : BatchInv(c) /\ BatchTrue(c)

LEMMA Recorded ==
    ASSUME VerdictsInv, NEW b \in Batches, batch[b].step \in Working,
           NEW verdict \in Verdict, Record(b, verdict), posts' = posts,
           lost \subseteq lost', lost' \subseteq lost \cup {<<b, Here(b)>>},
           verdict = "succeeded" => posts[<<b, Here(b)>>] > 0,
           verdict = "failed" /\ posts[<<b, Here(b)>>] > 0 => <<b, Here(b)>> \in lost'
    PROVE  Told'
  <1> DEFINE noted == {LineOf(verdict, b, Here(b))}
  <1>1. audit' = audit \cup noted
    BY DEF Record, LineOf
  <1>2. CASE events' = events \cup noted /\ Onward(b, verdict)
    <2>1. noted \subseteq {LineOf(verdict, b, Here(b))} /\ noted \subseteq noted
      OBVIOUS
    <2>2. verdict = "succeeded" =>
             posts[<<b, Here(b)>>] > 0 /\ LineOf("succeeded", b, Here(b)) \in noted
      OBVIOUS
    <2> HIDE DEF noted
    <2> QED
      BY <1>1, <1>2, <2>1, <2>2, MovesOn DEF Told
  <1>3. CASE events' = events /\ Onward(b, "failed")
    <2> DEFINE sent == {}
    <2>1. noted \subseteq {LineOf(verdict, b, Here(b))} /\ sent \subseteq noted
      OBVIOUS
    <2>2. /\ events' = events \cup sent /\ "failed" \in Verdict
          /\ "failed" # "succeeded"
      BY <1>3 DEF Verdict
    <2>3. posts[<<b, Here(b)>>] > 0 => \/ <<b, Here(b)>> \in lost'
                                       \/ LineOf("succeeded", b, Here(b)) \in noted \ sent
      BY DEF Verdict
    <2> HIDE DEF noted, sent
    <2> QED
      BY <1>1, <1>3, <2>1, <2>2, <2>3, MovesOn DEF Told
  <1> QED
    BY <1>2, <1>3 DEF Record, LineOf

LEMMA AttemptOver ==
    ASSUME VerdictsInv, NEW b \in Batches, batch[b].step \in Working, NEW retryable,
           AttemptFails(b, retryable), NoteLost(b), posts' = posts
    PROVE  Told'
  <1>1. BatchInv(b) /\ TypeOK
    BY DEF VerdictsInv
  <1>2. batch[b].todo # <<>> /\ IsInjective(batch[b].todo) /\ batch[b] \in Batch
    BY <1>1 DEF BatchInv, TypeOK
  <1>3. CASE retryable /\ batch[b].attempt < MaxAttempts
    <2> DEFINE new == [batch[b] EXCEPT !.step = "sleeping", !.routes = <<>>, !.posted = FALSE]
    <2>1. batch' = [batch EXCEPT ![b] = new] /\ UNCHANGED books
      BY <1>1, <1>3 DEF AttemptFails, TypeOK
    <2>2. /\ new \in Batch /\ new.todo = batch[b].todo /\ new.stop = batch[b].stop
          /\ new.step = "sleeping" /\ new.posted = FALSE /\ new.attempt = batch[b].attempt
      <3>1. <<>> \in Seq(Routes)
        OBVIOUS
      <3> QED
        BY <1>2, <3>1 DEF Batch
    <2> HIDE DEF new
    <2>3. /\ batch' \in [Batches -> Batch] /\ batch'[b] = new
          /\ \A c \in Batches \ {b} : batch'[c] = batch[c]
      BY <1>1, <2>1, <2>2 DEF TypeOK
    <2>4. /\ \A c \in Batches : (BatchInv(c) /\ BatchTrue(c))'
          /\ lost' \subseteq Batches \X Platforms
      BY <1>3, <2>1, <2>2, <2>3, GoesOn DEF Working
    <2> QED
      BY <1>1, <2>1, <2>3, <2>4 DEF Told, books, TypeOK
  <1>4. CASE Record(b, "failed")
    <2>1. lost \subseteq lost' /\ lost' \subseteq lost \cup {<<b, Here(b)>>}
      BY DEF NoteLost
    <2>2. posts[<<b, Here(b)>>] > 0 => <<b, Here(b)>> \in lost'
      BY <1>1 DEF BatchInv, NoteLost
    <2> QED
      BY <1>4, <2>1, <2>2, Recorded DEF Verdict
  <1> QED
    BY <1>3, <1>4 DEF AttemptFails

\* A step that sets some fields of a batch at work and nothing else of it.
LEMMA SetsFields ==
    ASSUME VerdictsInv, NEW b \in Batches, batch[b].step \in Working \cup {"next"},
           NEW new \in Batch, batch' = [batch EXCEPT ![b] = new],
           new.todo = batch[b].todo, new.stop = batch[b].stop,
           new.step \in Working \ {"sleeping"}, new.posted = FALSE,
           new.step = "fallback" => new.routes # <<>>,
           NoteLost(b), UNCHANGED <<books, posts>>
    PROVE  Told'
  <1>1. TypeOK
    BY DEF VerdictsInv
  <1>2. /\ batch' \in [Batches -> Batch] /\ batch'[b] = new
        /\ \A c \in Batches \ {b} : batch'[c] = batch[c]
    BY <1>1 DEF TypeOK
  <1>3. /\ \A c \in Batches : (BatchInv(c) /\ BatchTrue(c))'
        /\ lost' \subseteq Batches \X Platforms
    BY <1>2, GoesOn DEF Working
  <1> QED
    BY <1>1, <1>2, <1>3 DEF Told, books, TypeOK

LEMMA PostMade ==
    ASSUME VerdictsInv, NEW b \in Batches, Deliver(b)
    PROVE  Told' /\ posts' \in [Batches \X Platforms -> 0 .. MaxPosts]
  <1>1. BatchInv(b) /\ BatchTrue(b) /\ TypeOK
    BY DEF VerdictsInv
  <1>2. batch[b].step \in {"primary", "fallback"} /\ batch[b].posted = FALSE
        /\ batch[b] \in Batch /\ batch[b].todo # <<>>
    BY <1>1 DEF Deliver, BatchInv, Working, TypeOK, Batch
  <1>3. Here(b) \in Platforms /\ Here(b) \in Range(batch[b].todo)
    BY <1>1, <1>2, Platform DEF BatchInv
  <1> DEFINE new == [batch[b] EXCEPT !.posted = TRUE]
             here == Here(b)
             more == IF posts[<<b, here>>] < MaxPosts THEN posts[<<b, here>>] + 1
                     ELSE posts[<<b, here>>]
  <1>4. /\ new \in Batch /\ new.todo = batch[b].todo /\ new.stop = batch[b].stop
        /\ new.step = batch[b].step /\ new.posted = TRUE /\ new.routes = batch[b].routes
    BY <1>2 DEF Batch
  <1>5. batch' = [batch EXCEPT ![b] = new]
    BY <1>1 DEF Deliver, TypeOK
  <1> HIDE DEF new
  <1>6. /\ batch' \in [Batches -> Batch] /\ batch'[b] = new
        /\ \A c \in Batches \ {b} : batch'[c] = batch[c]
    BY <1>1, <1>4, <1>5 DEF TypeOK
  <1>7. posts[<<b, here>>] \in 0 .. MaxPosts /\ <<b, here>> \in Batches \X Platforms
    BY <1>1, <1>3 DEF TypeOK
  <1>8. more \in 0 .. MaxPosts /\ more > 0 /\ (posts[<<b, here>>] = 0 => more <= 1)
    BY <1>7 DEF MaxPosts
  <1>9. posts' = [posts EXCEPT ![<<b, here>>] = more]
    BY DEF Deliver
  <1> HIDE DEF more
  <1>10. /\ posts' \in [Batches \X Platforms -> 0 .. MaxPosts] /\ posts'[<<b, here>>] = more
         /\ \A c \in Batches, pl \in Platforms :
               c # b \/ pl # here => posts'[<<c, pl>>] = posts[<<c, pl>>]
    BY <1>1, <1>7, <1>8, <1>9 DEF TypeOK
  <1>11. report' = report /\ audit' = audit /\ events' = events /\ lost' = lost
    BY DEF Deliver, books
  <1>12. ASSUME NEW c \in Batches, c # b PROVE (BatchInv(c) /\ BatchTrue(c))'
    BY <1>6, <1>10, <1>11, <1>12, OtherBatches
  <1>13. Here(b)' = here
    BY <1>4, <1>6 DEF Here
  <1>14. Range(batch[b].todo) \subseteq Platforms
    BY <1>1 DEF TypeOK, Batch, Range
  <1>15. \A pl \in Range(batch[b].todo) :
            NoLine(b, pl)' /\ (Untouched(b, pl)' \/ pl = here)
    BY <1>1, <1>10, <1>11, <1>14 DEF BatchInv, NoLine, Untouched
  <1> HIDE DEF here
  <1>16. BatchInv(b)'
    BY <1>1, <1>2, <1>4, <1>6, <1>8, <1>10, <1>13, <1>15 DEF BatchInv, Working
  <1>17. NoLine(b, here)
    BY <1>1, <1>3 DEF BatchInv, here
  <1>18. \A v \in Verdict : LineOf(v, b, here) \notin report \cup audit \cup events
    BY <1>17 DEF NoLine
  <1>19. <<b, here>> \notin lost => more <= 1
    BY <1>1, <1>2, <1>8 DEF BatchInv, Working, here
  <1>20. ASSUME NEW pl \in Platforms
         PROVE  /\ LineOf("succeeded", b, pl) \in report' =>
                     posts'[<<b, pl>>] > 0 /\ LineOf("succeeded", b, pl) \in events'
                /\ LineOf("failed", b, pl) \in report' /\ posts'[<<b, pl>>] > 0 =>
                     \/ <<b, pl>> \in lost'
                     \/ LineOf("succeeded", b, pl) \in audit' \ events'
                /\ <<b, pl>> \notin lost' => posts'[<<b, pl>>] <= 1
                /\ ~ \A v \in Verdict : LineOf(v, b, pl) \in audit'
    <2>1. CASE pl = here
      BY <2>1, <1>10, <1>11, <1>18, <1>19 DEF Verdict
    <2>2. CASE pl # here
      BY <2>2, <1>1, <1>10, <1>11 DEF BatchTrue
    <2> QED
      BY <2>1, <2>2
  <1>21. BatchTrue(b)'
    BY <1>1, <1>4, <1>6, <1>11, <1>20 DEF BatchTrue
  <1> QED
    BY <1>1, <1>6, <1>10, <1>11, <1>12, <1>16, <1>21 DEF Told, TypeOK

LEMMA ListedInOrder ==
    ASSUME NEW T, NEW sequence \in Seq(T), NEW S \in SUBSET Range(sequence), S \subseteq T,
           NEW listed \in InOrderOf(sequence, S)
    PROVE  listed \in Seq(T) /\ IsInjective(listed)
  <1>1. sequence \in [1 .. Len(sequence) -> Range(sequence)] /\ Len(sequence) \in Nat
    BY DEF Range
  <1>2. sequence \in Surjection(1 .. Len(sequence), Range(sequence))
    BY <1>1 DEF Surjection, Range
  <1>3. IsFiniteSet(1 .. Len(sequence))
    BY <1>1, FS_Interval
  <1>4. Cardinality(S) \in Nat
    BY <1>2, <1>3, FS_Surjection, FS_Subset, FS_CardinalityType
  <1>5. listed \in [1 .. Cardinality(S) -> S] /\ IsInjective(listed)
    BY DEF InOrderOf, Injection
  <1>6. listed \in [1 .. Cardinality(S) -> T]
    BY <1>5
  <1> QED
    BY <1>4, <1>5, <1>6

LEMMA Begun ==
    ASSUME VerdictsInv, NEW b \in Batches, Begin(b)
    PROVE  Told'
  <1>1. BatchInv(b) /\ BatchTrue(b) /\ TypeOK
    BY DEF VerdictsInv
  <1>2. PICK stop \in BOOLEAN, platforms \in PublicationPlatforms(b) :
           batch' = [batch EXCEPT ![b].step = IF platforms = <<>> THEN "done" ELSE "next",
                                  ![b].todo = platforms, ![b].stop = stop]
    BY DEF Begin
  <1>3. platforms \in Seq(Platforms) /\ IsInjective(platforms)
    <2>1. CASE Requested[b] # <<>>
      BY <2>1, DeliveryAssumption DEF PublicationPlatforms
    <2>2. CASE Requested[b] = <<>>
      <3> DEFINE active == {pl \in Platforms : status[pl] = "active"}
      <3>1. platforms \in InOrderOf(Catalog, active)
        BY <2>2 DEF PublicationPlatforms
      <3>2. Catalog \in Seq(Platforms) /\ active \in SUBSET Range(Catalog)
        BY DeliveryAssumption DEF Platforms
      <3> HIDE DEF active
      <3> QED
        BY <3>1, <3>2, ListedInOrder DEF Platforms
    <2> QED
      BY <2>1, <2>2
  <1>4. batch[b] \in Batch /\ batch[b].step = "new"
    BY <1>1 DEF TypeOK, Begin, At
  <1> DEFINE new == [batch[b] EXCEPT !.step = IF platforms = <<>> THEN "done" ELSE "next",
                                     !.todo = platforms, !.stop = stop]
  <1>5. batch' = [batch EXCEPT ![b] = new]
    BY <1>1, <1>2 DEF TypeOK
  <1>6. /\ new \in Batch /\ new.todo = platforms /\ new.stop = stop
        /\ new.step = (IF platforms = <<>> THEN "done" ELSE "next")
        /\ new.posted = batch[b].posted
    BY <1>3, <1>4 DEF Batch
  <1> HIDE DEF new
  <1>7. /\ batch' \in [Batches -> Batch] /\ batch'[b] = new
        /\ \A c \in Batches \ {b} : batch'[c] = batch[c]
    BY <1>1, <1>5, <1>6 DEF TypeOK
  <1>8. /\ report' = report /\ audit' = audit /\ events' = events
        /\ posts' = posts /\ lost' = lost
    BY DEF Begin, books
  <1>9. ASSUME NEW c \in Batches, c # b PROVE (BatchInv(c) /\ BatchTrue(c))'
    BY <1>7, <1>8, <1>9, OtherBatches
  <1>10. \A pl \in Platforms : NoLine(b, pl)' /\ Untouched(b, pl)'
    BY <1>1, <1>4, <1>8 DEF BatchInv, NoLine, Untouched
  <1>11. BatchInv(b)'
    <2>1. Range(platforms) \subseteq Platforms
      BY <1>3 DEF Range
    <2>2. batch[b].posted = FALSE
      BY <1>1, <1>4 DEF BatchInv, Batch
    <2> QED
      BY <1>3, <1>6, <1>7, <1>10, <2>1, <2>2 DEF BatchInv, Working
  <1>12. BatchTrue(b)'
    <2>1. \A pl \in Platforms : LineOf("failed", b, pl) \notin report'
      BY <1>10 DEF NoLine, Verdict
    <2>2. ASSUME NEW pl \in Platforms
          PROVE  /\ LineOf("succeeded", b, pl) \notin report'
                 /\ LineOf("failed", b, pl) \notin audit'
                 /\ posts'[<<b, pl>>] <= 1
      BY <1>10 DEF NoLine, Untouched, Verdict
    <2>3. "failed" \in Verdict
      BY DEF Verdict
    <2> QED
      BY <1>6, <1>7, <2>1, <2>2, <2>3 DEF BatchTrue
  <1> QED
    BY <1>1, <1>7, <1>8, <1>9, <1>11, <1>12 DEF Told, TypeOK

LEMMA Leases ==
    ASSUME VerdictsInv, NEW b \in Batches, At(b, "leasing"), CallPrimary(b),
           UNCHANGED <<books, posts, lost>>
    PROVE  Told'
  <1>1. BatchInv(b) /\ TypeOK
    BY DEF VerdictsInv
  <1>2. batch[b].step = "leasing" /\ batch[b] \in Batch /\ batch[b].posted = FALSE
    BY <1>1 DEF At, TypeOK, BatchInv, Batch
  <1> DEFINE new == [batch[b] EXCEPT !.step = "primary", !.posted = FALSE]
  <1>3. batch' = [batch EXCEPT ![b] = new]
    BY <1>1 DEF CallPrimary, TypeOK
  <1>4. /\ new \in Batch /\ new.todo = batch[b].todo /\ new.stop = batch[b].stop
        /\ new.step = "primary" /\ new.posted = FALSE
    BY <1>2 DEF Batch
  <1> HIDE DEF new
  <1> QED
    BY <1>2, <1>3, <1>4, SetsFields DEF NoteLost, Working

LEMMA AttemptBegins ==
    ASSUME VerdictsInv, NEW b \in Batches, NEW number \in 1 .. MaxAttempts,
           batch[b].step \in {"next", "sleeping"}, Attempt(b, number),
           UNCHANGED <<books, posts, lost>>
    PROVE  Told'
  <1>1. BatchInv(b) /\ TypeOK
    BY DEF VerdictsInv
  <1>2. batch[b] \in Batch /\ batch[b].posted = FALSE
    BY <1>1 DEF TypeOK, BatchInv, Batch
  <1> DEFINE new == [batch[b] EXCEPT !.step = "leasing", !.attempt = number]
  <1>3. batch' = [batch EXCEPT ![b] = new]
    BY <1>1 DEF Attempt, TypeOK
  <1>4. /\ new \in Batch /\ new.todo = batch[b].todo /\ new.stop = batch[b].stop
        /\ new.step = "leasing" /\ new.posted = FALSE
    <2>1. number \in 0 .. MaxAttempts
      BY DeliveryAssumption
    <2> QED
      BY <1>2, <2>1 DEF Batch
  <1> HIDE DEF new
  <1> QED
    BY <1>2, <1>3, <1>4, SetsFields DEF NoteLost, Working

\* The platform answers that it cannot take the post, and the routes are next.
LEMMA TurnsToRoutes ==
    ASSUME VerdictsInv, NEW b \in Batches, batch[b].step \in {"primary", "fallback"},
           NEW routes \in Seq(Routes), routes # <<>>,
           batch' = [batch EXCEPT ![b] = [batch[b] EXCEPT
                        !.step = "fallback", !.posted = FALSE, !.routes = routes]],
           NoteLost(b), UNCHANGED <<books, posts>>
    PROVE  Told'
  <1>1. batch[b] \in Batch
    BY DEF VerdictsInv, TypeOK
  <1> DEFINE new == [batch[b] EXCEPT !.step = "fallback", !.posted = FALSE, !.routes = routes]
  <1>2. /\ new \in Batch /\ new.todo = batch[b].todo /\ new.stop = batch[b].stop
        /\ new.step = "fallback" /\ new.posted = FALSE /\ new.routes = routes
    BY <1>1 DEF Batch
  <1>3. batch' = [batch EXCEPT ![b] = new]
    OBVIOUS
  <1> HIDE DEF new
  <1> QED
    BY <1>2, <1>3, SetsFields DEF Working

SharedTyped ==
    /\ status \in [Platforms -> PlatformStatus]
    /\ healthy \subseteq Routes
    /\ leasable \in [Platforms -> SUBSET Proxies]
    /\ cursor \in [Platforms -> Nat]
    /\ leased \in [Platforms -> Proxies \cup {NoProxy}]

LEMMA RoutesTyped ==
    ASSUME NEW pl \in Platforms, NEW routes \in RoutesFor(pl)
    PROVE  routes \in Seq(Routes)
  <1>1. PICK available \in InOrderOf(RoutesOf[pl], healthy \cap Range(RoutesOf[pl])) :
           routes = IF Len(available) > MaxFallback
                    THEN SubSeq(available, 1, MaxFallback) ELSE available
    BY DEF RoutesFor
  <1>2. RoutesOf[pl] \in Seq(Routes) /\ Range(RoutesOf[pl]) \subseteq Routes
    BY DeliveryAssumption DEF Routes
  <1>3. available \in Seq(Routes)
    BY <1>2, ListedInOrder
  <1> QED
    BY <1>1, <1>3, DeliveryAssumption

LEMMA LeastOffset ==
    ASSUME NEW S \in SUBSET Nat, S # {}
    PROVE  \E n \in S : \A m \in S : n <= m
  <1>1. PICK n \in S : \A m \in S : ~(<<m, n>> \in OpToRel(<, Nat))
    BY NatLessThanWellFounded, WFMin
  <1>2. \A m \in S : m < n => <<m, n>> \in OpToRel(<, Nat)
    BY DEF OpToRel
  <1>3. \A m \in S : ~(m < n)
    BY <1>1, <1>2, Zenon
  <1> QED
    BY <1>3

LEMMA LeaseTyped ==
    ASSUME VerdictsInv, NEW b \in Batches, LeaseProxy(b), Here(b) \in Platforms
    PROVE  SharedTyped'
  <1> DEFINE pl == Here(b)
             n == Len(Pool[pl])
             index == (cursor[pl] + FirstOffset(pl)) % n
  <1>1. SharedTyped
    BY DEF VerdictsInv, TypeOK, SharedTyped
  <1>2. Pool[pl] \in Seq(Proxies) /\ n \in Nat
    BY DeliveryAssumption
  <1>3. Offsets(pl) \subseteq 0 .. (n - 1) /\ Offsets(pl) # {}
    BY DEF Offsets, LeaseProxy
  <1>4. n > 0
    BY <1>2, <1>3
  <1>5. FirstOffset(pl) \in Nat
    <2>1. Offsets(pl) \in SUBSET Nat
      BY <1>2, <1>3
    <2>2. \E k \in Offsets(pl) : \A j \in Offsets(pl) : k <= j
      BY <1>3, <2>1, LeastOffset
    <2> QED
      BY <2>1, <2>2 DEF FirstOffset
  <1>6. index \in 0 .. (n - 1) /\ index + 1 \in 1 .. n /\ (index + 1) % n \in Nat
    <2>1. cursor[pl] \in Nat
      BY <1>1 DEF SharedTyped
    <2>2. \A i \in Nat, m \in Nat \ {0} : i % m \in 0 .. (m - 1)
      OBVIOUS
    <2>3. index \in 0 .. (n - 1)
      <3> DEFINE k == cursor[pl] + FirstOffset(pl)
      <3>1. k \in Nat /\ n \in Nat \ {0}
        BY <1>2, <1>4, <1>5, <2>1
      <3>2. index = k % n
        OBVIOUS
      <3> HIDE DEF k, n, index
      <3> QED
        BY <3>1, <3>2, <2>2
    <2> HIDE DEF index, n
    <2> QED
      BY <1>2, <1>4, <2>2, <2>3
  <1>7. Pool[pl][index + 1] \in Proxies
    BY <1>2, <1>6
  <1>8. /\ cursor' = [cursor EXCEPT ![pl] = (index + 1) % n]
        /\ leased' = [leased EXCEPT ![pl] = Pool[pl][index + 1]]
        /\ UNCHANGED <<status, healthy, leasable>>
    BY DEF LeaseProxy
  <1> HIDE DEF index, n, pl
  <1> QED
    BY <1>1, <1>6, <1>7, <1>8 DEF SharedTyped

LEMMA PublishStep ==
    ASSUME VerdictsInv, NEW b \in Batches, Publishing(b)
    PROVE  VerdictsInv'
  <1>1. BatchInv(b) /\ TypeOK /\ batch[b] \in Batch
    BY DEF VerdictsInv, TypeOK
  <1>2. batch[b].step \in Working \cup {"next"} =>
           /\ Here(b) \in Platforms
           /\ batch[b].attempt \in 0 .. MaxAttempts /\ batch[b].routes \in Seq(Routes)
    BY <1>1, Platform DEF BatchInv, Batch
  <1>3. SharedTyped /\ posts \in [Batches \X Platforms -> 0 .. MaxPosts]
    BY <1>1 DEF TypeOK, SharedTyped
  <1>4. (Told /\ SharedTyped /\ posts \in [Batches \X Platforms -> 0 .. MaxPosts])' =>
           VerdictsInv'
    BY DEF Told, SharedTyped, VerdictsInv, TypeOK
  <1>5. UNCHANGED shared => SharedTyped'
    BY <1>3 DEF shared, SharedTyped
  <1>6. ASSUME ~batch[b].posted, lost' = lost PROVE NoteLost(b)
    BY <1>6 DEF NoteLost
  <1>7. CASE Begin(b)
    BY <1>3, <1>4, <1>5, <1>7, Begun DEF Begin
  <1>8. CASE StartPlatform(b)
    <2>1. 1 \in 1 .. MaxAttempts
      BY DeliveryAssumption
    <2>2. Told'
      BY <1>8, <2>1, AttemptBegins DEF StartPlatform, At
    <2> QED
      BY <1>3, <1>4, <1>5, <1>8, <2>2 DEF StartPlatform
  <1>9. CASE RefusePlatform(b)
    <2>1. batch[b].step = "next" /\ Onward(b, "failed")
      BY <1>9 DEF RefusePlatform, At
    <2>2. posts[<<b, Here(b)>>] = 0
      <3>1. Here(b) \in Range(batch[b].todo)
        BY <1>1, <2>1, Platform DEF BatchInv
      <3> QED
        BY <1>1, <2>1, <3>1 DEF BatchInv, Working, Untouched
    <2> DEFINE none == {}
    <2>3. /\ none \subseteq {LineOf("failed", b, Here(b))} /\ none \subseteq none
          /\ audit' = audit \cup none /\ events' = events \cup none
          /\ "failed" \in Verdict /\ "failed" # "succeeded" /\ posts' = posts
          /\ lost \subseteq lost' /\ lost' \subseteq lost \cup {<<b, Here(b)>>}
      BY <1>9 DEF RefusePlatform, Verdict
    <2> HIDE DEF none
    <2>4. ~(posts[<<b, Here(b)>>] > 0)
      BY <2>2
    <2>5. Told'
      BY <2>1, <2>3, <2>4, MovesOn DEF Told
    <2> QED
      BY <1>3, <1>4, <1>5, <1>9, <2>5 DEF RefusePlatform
  <1>10. CASE WakeUp(b)
    <2>1. batch[b].step = "sleeping" /\ batch[b].attempt + 1 \in 1 .. MaxAttempts
      BY <1>1, <1>2, <1>10, DeliveryAssumption DEF WakeUp, At, BatchInv, Working
    <2>2. Told'
      BY <1>10, <2>1, AttemptBegins DEF WakeUp
    <2> QED
      BY <1>3, <1>4, <1>5, <1>10, <2>2 DEF WakeUp
  <1>11. CASE LeaseProxy(b)
    <2>1. Here(b) \in Platforms
      BY <1>2, <1>11 DEF LeaseProxy, At, Working
    <2>2. SharedTyped'
      BY <1>11, <2>1, LeaseTyped
    <2>3. Told'
      BY <1>11, Leases DEF LeaseProxy
    <2> QED
      BY <1>3, <1>4, <1>11, <2>2, <2>3 DEF LeaseProxy
  <1>12. CASE LeaseFails(b)
    <2>1. batch[b].step = "leasing" /\ ~batch[b].posted
      BY <1>1, <1>12 DEF LeaseFails, At, BatchInv
    <2>2. Told'
      <3>1. CASE Here(b) \in ProxyRequired
        BY <1>6, <1>12, <2>1, <3>1, AttemptOver DEF LeaseFails, Working
      <3>2. CASE Here(b) \notin ProxyRequired
        BY <1>12, <3>2, Leases DEF LeaseFails
      <3> QED
        BY <3>1, <3>2
    <2> QED
      BY <1>3, <1>4, <1>5, <1>12, <2>2 DEF LeaseFails
  <1>13. CASE Deliver(b)
    BY <1>4, <1>5, <1>13, PostMade DEF Deliver
  <1>14. CASE PrimaryAnswers(b)
    <2>1. batch[b].step \in Working /\ posts[<<b, Here(b)>>] > 0
      BY <1>1, <1>14 DEF PrimaryAnswers, At, Working, BatchInv
    <2>2. Told'
      BY <1>14, <2>1, Recorded DEF PrimaryAnswers, Verdict
    <2> QED
      BY <1>3, <1>4, <1>5, <1>14, <2>2 DEF PrimaryAnswers
  <1>15. CASE PrimaryRefuses(b)
    <2>1. batch[b].step \in Working
      BY <1>15 DEF PrimaryRefuses, At, Working
    <2>2. Told'
      BY <1>15, <2>1, AttemptOver DEF PrimaryRefuses
    <2> QED
      BY <1>3, <1>4, <1>5, <1>15, <2>2 DEF PrimaryRefuses
  <1>16. CASE PrimaryUnavailable(b)
    <2>1. batch[b].step = "primary" /\ Here(b) \in Platforms
      BY <1>2, <1>16 DEF PrimaryUnavailable, At, Working
    <2>2. PICK routes \in RoutesFor(Here(b)) :
             IF routes = <<>>
               THEN AttemptFails(b, TRUE)
               ELSE /\ batch' = [batch EXCEPT ![b].step = "fallback", ![b].posted = FALSE,
                                              ![b].routes = routes]
                    /\ UNCHANGED books
      BY <1>16 DEF PrimaryUnavailable
    <2>3. routes \in Seq(Routes)
      BY <2>1, <2>2, RoutesTyped
    <2>4. Told'
      <3>1. CASE routes = <<>>
        BY <1>16, <2>1, <2>2, <3>1, AttemptOver DEF PrimaryUnavailable, Working
      <3>2. CASE routes # <<>>
        <4>1. batch' = [batch EXCEPT ![b] = [batch[b] EXCEPT
                          !.step = "fallback", !.posted = FALSE, !.routes = routes]]
          BY <1>1, <2>2, <3>2 DEF TypeOK
        <4> QED
          BY <1>16, <2>1, <2>2, <2>3, <3>2, <4>1, TurnsToRoutes DEF PrimaryUnavailable
      <3> QED
        BY <3>1, <3>2
    <2> QED
      BY <1>3, <1>4, <1>5, <1>16, <2>4 DEF PrimaryUnavailable
  <1>17. CASE RouteAnswers(b)
    <2>1. batch[b].step \in Working /\ posts[<<b, Here(b)>>] > 0
      BY <1>1, <1>17 DEF RouteAnswers, At, Working, BatchInv
    <2>2. Told'
      BY <1>17, <2>1, Recorded DEF RouteAnswers, FallbackResult, Verdict
    <2>3. batch[b].routes \in Seq(Routes) /\ batch[b].routes # <<>>
      BY <1>1, <1>17 DEF RouteAnswers, At, BatchInv, Batch
    <2>4. Head(batch[b].routes) \in Routes
      BY <2>3
    <2>5. SharedTyped'
      BY <1>3, <1>17, <2>4 DEF RouteAnswers, MarkHealthy, SharedTyped
    <2> QED
      BY <1>3, <1>4, <1>17, <2>2, <2>5 DEF RouteAnswers
  <1>18. CASE RouteFails(b)
    <2>1. batch[b].step = "fallback" /\ NoteLost(b) /\ posts' = posts
      BY <1>18 DEF RouteFails, At
    <2>2. batch[b].routes \in Seq(Routes) /\ batch[b].routes # <<>>
      BY <1>1, <2>1 DEF BatchInv, Batch
    <2> DEFINE rest == Tail(batch[b].routes)
    <2>3. rest \in Seq(Routes)
      BY <2>2
    <2>4. Told'
      <3>1. CASE rest # <<>>
        <4>1. batch' = [batch EXCEPT ![b].routes = rest, ![b].posted = FALSE]
              /\ UNCHANGED books
          BY <1>18, <3>1 DEF RouteFails
        <4>2. [batch[b] EXCEPT !.routes = rest, !.posted = FALSE]
                 = [batch[b] EXCEPT !.step = "fallback", !.posted = FALSE, !.routes = rest]
          BY <1>1, <2>1 DEF Batch
        <4>3. batch' = [batch EXCEPT ![b] = [batch[b] EXCEPT
                          !.step = "fallback", !.posted = FALSE, !.routes = rest]]
          BY <1>1, <4>1, <4>2 DEF TypeOK
        <4> HIDE DEF rest
        <4> QED
          BY <2>1, <2>3, <3>1, <4>1, <4>3, TurnsToRoutes
      <3>2. CASE rest = <<>>
        <4>1. PICK retryable \in BOOLEAN : AttemptFails(b, retryable)
          BY <1>18, <3>2 DEF RouteFails
        <4> QED
          BY <2>1, <4>1, AttemptOver DEF Working
      <3> QED
        BY <3>1, <3>2
    <2>5. SharedTyped'
      BY <1>3, <1>18 DEF RouteFails, MarkUnhealthy, SharedTyped
    <2> QED
      BY <1>3, <1>4, <2>1, <2>4, <2>5
  <1> QED
    BY <1>7, <1>8, <1>9, <1>10, <1>11, <1>12, <1>13, <1>14, <1>15, <1>16, <1>17, <1>18
       DEF Publishing

LEMMA NothingTold ==
    ASSUME VerdictsInv, UNCHANGED <<batch, books, posts, lost>>, SharedTyped'
    PROVE  VerdictsInv'
  <1>1. TypeOK'
    BY DEF VerdictsInv, TypeOK, SharedTyped, books
  <1>2. ASSUME NEW b \in Batches PROVE (BatchInv(b) /\ BatchTrue(b))'
    <2>1. BatchInv(b) /\ BatchTrue(b)
      BY DEF VerdictsInv
    <2> QED
      BY <2>1 DEF books, BatchInv, BatchTrue, NoLine, Untouched, Here, Working, Verdict, LineOf
  <1> QED
    BY <1>1, <1>2 DEF VerdictsInv

LEMMA OperatorStep ==
    ASSUME VerdictsInv, Operating
    PROVE  VerdictsInv'
  <1>1. UNCHANGED <<batch, books, posts, lost>>
    BY DEF Operating, UpdateStatus, RegisterPool
  <1>2. TypeOK
    BY DEF VerdictsInv
  <1>3. PICK pl \in Platforms :
           UpdateStatus(pl) \/ \E endpoints \in PoolHealth[pl] : RegisterPool(pl, endpoints)
    BY DEF Operating
  <1>4. SharedTyped'
    <2>1. CASE UpdateStatus(pl)
      BY <1>2, <2>1 DEF UpdateStatus, TypeOK, SharedTyped, PlatformStatus
    <2>2. ASSUME NEW endpoints \in PoolHealth[pl], RegisterPool(pl, endpoints)
          PROVE  SharedTyped'
      <3>1. endpoints \subseteq Proxies
        BY DeliveryAssumption DEF Proxies
      <3> QED
        BY <1>2, <2>2, <3>1 DEF RegisterPool, TypeOK, SharedTyped
    <2> QED
      BY <1>3, <2>1, <2>2
  <1> QED
    BY <1>1, <1>4, NothingTold

LEMMA VerdictsStep == VerdictsInv /\ [Next]_vars => VerdictsInv'
  <1> SUFFICES ASSUME VerdictsInv, [Next]_vars PROVE VerdictsInv'
    OBVIOUS
  <1>1. CASE UNCHANGED vars
    <2>1. UNCHANGED <<status, healthy, leasable, cursor, leased>>
          /\ UNCHANGED <<batch, books, posts, lost>>
      BY <1>1 DEF vars, books
    <2> QED
      BY <2>1, NothingTold DEF TypeOK, VerdictsInv, SharedTyped
  <1>2. CASE Operating
    BY <1>2, OperatorStep
  <1>3. ASSUME NEW b \in Batches, Publishing(b) PROVE VerdictsInv'
    BY <1>3, PublishStep
  <1> QED
    BY <1>1, <1>2, <1>3 DEF Next

\* What a batch tells its caller, the audit and the consumers agree with each
\* other and with what was posted, for any batches, platforms, routes and proxies
\* and whatever operators do meanwhile (publish, _record_success, _record_failure).
THEOREM VerdictsStand == Spec => []VerdictsAreTrue
  <1>1. Init => VerdictsInv
    BY VerdictsInitially
  <1>2. VerdictsInv /\ [Next]_vars => VerdictsInv'
    BY VerdictsStep
  <1>3. VerdictsInv => VerdictsAreTrue
    BY VerdictsFollow
  <1> QED
    BY <1>1, <1>2, <1>3, PTL DEF Spec

(***************************************************************************)
(* Proxy pools: the endpoint leased last is the one before the cursor.     *)
(***************************************************************************)

\* The position of the endpoint that was leased last, if one was.
LastOf(pl) == IF cursor[pl] = 0 THEN Len(Pool[pl]) ELSE cursor[pl]

PoolTurns(pl) ==
    /\ leasable[pl] \subseteq Range(Pool[pl])
    /\ cursor[pl] = 0 \/ cursor[pl] < Len(Pool[pl])
    /\ leased[pl] # NoProxy => leased[pl] = Pool[pl][LastOf(pl)]

RotationInv == \A pl \in Platforms : PoolTurns(pl)

LEMMA Wraps ==
    ASSUME NEW n \in Nat \ {0}, NEW m \in Nat, m < 2 * n
    PROVE  m % n = IF m < n THEN m ELSE m - n
  OBVIOUS

\* The offset, from the cursor c on, at which position i of a pool is met.
OffsetTo(i, c, n) == IF i > c THEN i - 1 - c ELSE i - 1 - c + n

LEMMA Met ==
    ASSUME NEW n \in Nat \ {0}, NEW c \in 0 .. (n - 1), NEW i \in 1 .. n
    PROVE  /\ OffsetTo(i, c, n) \in 0 .. (n - 1)
           /\ ((c + OffsetTo(i, c, n)) % n) + 1 = i
  <1> DEFINE k == OffsetTo(i, c, n)
  <1>1. /\ k \in 0 .. (n - 1) /\ c + k \in Nat /\ c + k < 2 * n
        /\ c + k = IF i > c THEN i - 1 ELSE i - 1 + n
    <2>1. CASE i > c
      BY <2>1 DEF OffsetTo
    <2>2. CASE ~(i > c)
      BY <2>2 DEF OffsetTo
    <2> QED
      BY <2>1, <2>2
  <1> HIDE DEF k
  <1>2. (c + k) % n = IF c + k < n THEN c + k ELSE c + k - n
    <2>1. PICK m \in Nat : m = c + k /\ m < 2 * n
      BY <1>1
    <2>2. m % n = IF m < n THEN m ELSE m - n
      BY <2>1, Wraps
    <2> QED
      BY <1>1, <2>1, <2>2
  <1>3. (c + k) % n = i - 1
    BY <1>1, <1>2
  <1>4. ((c + k) % n) + 1 = i
    BY <1>3
  <1> QED
    BY <1>1, <1>4 DEF k

\* Every endpoint that can be leased is met, looking from the cursor on.
LEMMA OffsetOf ==
    ASSUME NEW pl \in Platforms, Len(Pool[pl]) \in Nat \ {0},
           cursor[pl] \in 0 .. (Len(Pool[pl]) - 1),
           NEW i \in 1 .. Len(Pool[pl]), Pool[pl][i] \in leasable[pl]
    PROVE  OffsetTo(i, cursor[pl], Len(Pool[pl])) \in Offsets(pl)
  <1> DEFINE k == OffsetTo(i, cursor[pl], Len(Pool[pl]))
  <1>1. k \in 0 .. (Len(Pool[pl]) - 1) /\ ((cursor[pl] + k) % Len(Pool[pl])) + 1 = i
    BY Met
  <1> HIDE DEF k
  <1>2. k \in Offsets(pl)
    BY <1>1 DEF Offsets
  <1> QED
    BY <1>2 DEF k

LEMMA LeaseTurns ==
    ASSUME VerdictsInv, RotationInv, NEW b \in Batches, LeaseProxy(b),
           NEW pl \in Platforms, pl = Here(b)
    PROVE  RotationInv' /\ (leasable[pl] \ {leased[pl]} # {} => leased'[pl] # leased[pl])
  <1> DEFINE n == Len(Pool[pl])
             c == cursor[pl]
             first == FirstOffset(pl)
             index == (c + first) % n
  <1>1. /\ leasable \in [Platforms -> SUBSET Proxies] /\ c \in Nat
        /\ cursor \in [Platforms -> Nat] /\ leased \in [Platforms -> Proxies \cup {NoProxy}]
    BY DEF VerdictsInv, TypeOK
  <1>2. Pool[pl] \in Seq(Proxies) /\ n \in Nat /\ IsInjective(Pool[pl]) /\ NoProxy \notin Proxies
    BY DeliveryAssumption
  <1>3. Offsets(pl) \subseteq 0 .. (n - 1) /\ Offsets(pl) # {}
    BY DEF Offsets, LeaseProxy
  <1>4. n \in Nat \ {0} /\ c < n
    BY <1>1, <1>2, <1>3 DEF RotationInv, PoolTurns
  <1>5. first \in 0 .. (n - 1) /\ \A k \in Offsets(pl) : first <= k
    <2>1. Offsets(pl) \in SUBSET Nat
      BY <1>2, <1>3
    <2>2. \E k \in Offsets(pl) : \A j \in Offsets(pl) : k <= j
      BY <1>3, <2>1, LeastOffset
    <2> QED
      BY <1>3, <2>2 DEF FirstOffset
  <1>6. index = IF c + first < n THEN c + first ELSE c + first - n
    <2> HIDE DEF n, c, first
    <2>1. PICK m \in Nat : m = c + first /\ m < 2 * n
      BY <1>1, <1>4, <1>5
    <2>2. m % n = IF m < n THEN m ELSE m - n
      BY <1>4, <2>1, Wraps
    <2>3. index = m % n
      BY <2>1
    <2> HIDE DEF index
    <2> QED
      BY <1>1, <1>4, <1>5, <2>1, <2>2, <2>3
  <1>7. /\ cursor' = [cursor EXCEPT ![pl] = (index + 1) % n]
        /\ leased' = [leased EXCEPT ![pl] = Pool[pl][index + 1]]
        /\ leasable' = leasable
    BY DEF LeaseProxy
  <1> HIDE DEF n, c, first, index
  <1>8. index \in 0 .. (n - 1) /\ index + 1 \in Nat /\ index + 1 < 2 * n
    BY <1>1, <1>4, <1>5, <1>6
  <1>9. (index + 1) % n = IF index + 1 < n THEN index + 1 ELSE index + 1 - n
    BY <1>4, <1>8, Wraps
  <1>10. (index + 1) % n = IF index + 1 = n THEN 0 ELSE index + 1
    BY <1>4, <1>8, <1>9
  <1>11. /\ cursor'[pl] = (index + 1) % n /\ leased'[pl] = Pool[pl][index + 1]
         /\ leasable'[pl] = leasable[pl]
         /\ \A other \in Platforms \ {pl} : /\ cursor'[other] = cursor[other]
                                             /\ leased'[other] = leased[other]
                                             /\ leasable'[other] = leasable[other]
    BY <1>1, <1>7
  <1>12. PoolTurns(pl)'
    <2>1. cursor'[pl] = 0 \/ cursor'[pl] < n
      BY <1>4, <1>8, <1>10, <1>11
    <2>2. (IF cursor'[pl] = 0 THEN n ELSE cursor'[pl]) = index + 1
      BY <1>4, <1>8, <1>10, <1>11
    <2>3. leasable[pl] \subseteq Range(Pool[pl])
      BY DEF RotationInv, PoolTurns
    <2>4. PoolTurns(pl)' <=>
             /\ leasable'[pl] \subseteq Range(Pool[pl])
             /\ cursor'[pl] = 0 \/ cursor'[pl] < n
             /\ leased'[pl] # NoProxy =>
                   leased'[pl] = Pool[pl][IF cursor'[pl] = 0 THEN n ELSE cursor'[pl]]
      BY DEF PoolTurns, LastOf, n
    <2> QED
      BY <1>11, <2>1, <2>2, <2>3, <2>4
  <1>13. RotationInv'
    <2>1. ASSUME NEW other \in Platforms, other # pl PROVE PoolTurns(other)'
      BY <1>11, <2>1 DEF RotationInv, PoolTurns, LastOf
    <2> QED
      BY <1>12, <2>1 DEF RotationInv
  <1>14. ASSUME NEW x \in leasable[pl], x # leased[pl], leased'[pl] = leased[pl] PROVE FALSE
    <2> DEFINE last == IF c = 0 THEN n ELSE c
    <2>1. index + 1 \in 1 .. n /\ last \in 1 .. n
      BY <1>1, <1>4, <1>8
    <2>2. DOMAIN Pool[pl] = 1 .. n /\ \A i \in 1 .. n : Pool[pl][i] \in Proxies
      BY <1>2 DEF n
    <2>3. leased[pl] # NoProxy
      BY <1>2, <1>11, <1>14, <2>1, <2>2
    <2>4. leased[pl] = Pool[pl][last]
      BY <2>3 DEF RotationInv, PoolTurns, LastOf, n, c
    <2>5. index + 1 = last
      BY <1>2, <1>11, <1>14, <2>1, <2>2, <2>4 DEF IsInjective
    <2>6. first = n - 1
      BY <1>1, <1>4, <1>5, <1>6, <2>5
    <2>7. PICK i \in 1 .. n : Pool[pl][i] = x
      BY <1>14, <2>2 DEF RotationInv, PoolTurns, Range
    <2>8. OffsetTo(i, c, n) \in Offsets(pl)
      <3>1. c \in 0 .. (n - 1) /\ Pool[pl][i] \in leasable[pl]
        BY <1>1, <1>4, <1>14, <2>7
      <3> QED
        BY <1>4, <3>1, OffsetOf DEF n, c
    <2>9. n - 1 <= OffsetTo(i, c, n)
      BY <1>5, <2>6, <2>8
    <2>10. i = last
      <3>1. CASE i > c
        BY <1>1, <1>4, <2>9, <3>1 DEF OffsetTo
      <3>2. CASE ~(i > c)
        BY <1>1, <1>4, <2>9, <3>2 DEF OffsetTo
      <3> QED
        BY <3>1, <3>2
    <2> QED
      BY <1>14, <2>4, <2>7, <2>10
  <1> QED
    BY <1>13, <1>14

\* Only a lease and a new pool touch what is leased.
LEMMA RotationStep ==
    ASSUME VerdictsInv, RotationInv, [Next]_vars
    PROVE  /\ RotationInv'
           /\ \A b \in Batches : At(b, "leasing") /\ At(b, "primary")' =>
                 (leasable[Here(b)] \ {leased[Here(b)]} # {} =>
                     leased'[Here(b)] # leased[Here(b)])
  <1> DEFINE Turns(b) == At(b, "leasing") /\ At(b, "primary")' =>
                 (leasable[Here(b)] \ {leased[Here(b)]} # {} =>
                     leased'[Here(b)] # leased[Here(b)])
             same == UNCHANGED <<leasable, cursor, leased>>
  <1>1. same => RotationInv'
    BY DEF RotationInv, PoolTurns, LastOf
  <1>2. batch \in [Batches -> Batch] /\ leasable \in [Platforms -> SUBSET Proxies]
        /\ cursor \in [Platforms -> Nat] /\ leased \in [Platforms -> Proxies \cup {NoProxy}]
    BY DEF VerdictsInv, TypeOK
  <1>3. ASSUME NEW b \in Batches, batch'[b] = batch[b] PROVE Turns(b)
    BY <1>3 DEF At
  <1>4. CASE UNCHANGED vars
    <2>1. same /\ batch' = batch
      BY <1>4 DEF vars
    <2> QED
      BY <1>1, <1>3, <2>1
  <1>5. ASSUME NEW pl \in Platforms, UpdateStatus(pl)
        PROVE  RotationInv' /\ \A b \in Batches : Turns(b)
    <2>1. same /\ batch' = batch
      BY <1>5 DEF UpdateStatus
    <2> QED
      BY <1>1, <1>3, <2>1
  <1>6. ASSUME NEW pl \in Platforms, NEW endpoints \in PoolHealth[pl],
               RegisterPool(pl, endpoints)
        PROVE  RotationInv' /\ \A b \in Batches : Turns(b)
    <2>1. batch' = batch
      BY <1>6 DEF RegisterPool
    <2>2. endpoints \subseteq Range(Pool[pl])
      BY DeliveryAssumption
    <2>3. /\ leasable'[pl] = endpoints /\ cursor'[pl] = 0 /\ leased'[pl] = NoProxy
          /\ \A other \in Platforms \ {pl} : /\ cursor'[other] = cursor[other]
                                             /\ leased'[other] = leased[other]
                                             /\ leasable'[other] = leasable[other]
      BY <1>2, <1>6 DEF RegisterPool
    <2>4. RotationInv'
      BY <2>2, <2>3 DEF RotationInv, PoolTurns, LastOf
    <2> QED
      BY <1>3, <2>1, <2>4
  <1>7. ASSUME NEW b \in Batches, Publishing(b)
        PROVE  RotationInv' /\ \A c \in Batches : Turns(c)
    <2>1. CASE LeaseProxy(b)
      <3>1. Here(b) \in Platforms
        <4>1. At(b, "leasing") /\ BatchInv(b) /\ TypeOK
          BY <2>1 DEF LeaseProxy, VerdictsInv
        <4> QED
          BY <4>1, Platform DEF At, BatchInv, Working
      <3>2. RotationInv' /\ Turns(b)
        BY <2>1, <3>1, LeaseTurns
      <3>3. \A c \in Batches \ {b} : batch'[c] = batch[c]
        BY <1>2, <2>1 DEF LeaseProxy, CallPrimary
      <3> QED
        BY <1>3, <3>2, <3>3
    <2>2. CASE LeaseFails(b)
      <3>1. same /\ At(b, "leasing") /\ Offsets(Here(b)) = {}
        BY <2>2 DEF LeaseFails, shared
      <3>2. Here(b) \in Platforms
        <4>1. BatchInv(b) /\ TypeOK
          BY DEF VerdictsInv
        <4> QED
          BY <3>1, <4>1, Platform DEF At, BatchInv, Working
      <3>3. leasable[Here(b)] = {}
        <4>1. SUFFICES ASSUME NEW x \in leasable[Here(b)] PROVE FALSE
          OBVIOUS
        <4> DEFINE n == Len(Pool[Here(b)])
        <4>2. n \in Nat /\ DOMAIN Pool[Here(b)] = 1 .. n
          BY <3>2, DeliveryAssumption
        <4>3. PICK i \in 1 .. n : Pool[Here(b)][i] = x
          BY <3>2, <4>2 DEF RotationInv, PoolTurns, Range
        <4>4. n \in Nat \ {0} /\ cursor[Here(b)] \in 0 .. (n - 1)
          BY <1>2, <3>2, <4>2, <4>3 DEF RotationInv, PoolTurns
        <4> QED
          BY <3>1, <3>2, <4>3, <4>4, OffsetOf
      <3>4. Turns(b)
        BY <3>3
      <3>5. \A c \in Batches \ {b} : batch'[c] = batch[c]
        BY <1>2, <2>2 DEF LeaseFails, AttemptFails, CallPrimary, Record, Onward
      <3> QED
        BY <1>1, <1>3, <3>1, <3>4, <3>5
    <2>3. CASE ~At(b, "leasing")
      <3>1. same /\ \A c \in Batches \ {b} : batch'[c] = batch[c]
        <4>1. same
          BY <1>7, <2>3 DEF Publishing, Begin, StartPlatform, RefusePlatform, WakeUp,
             LeaseProxy, LeaseFails, Deliver, PrimaryAnswers, PrimaryRefuses,
             PrimaryUnavailable, RouteAnswers, RouteFails, shared
        <4>2. ASSUME NEW c \in Batches \ {b} PROVE batch'[c] = batch[c]
          <5>1. CASE Begin(b) \/ StartPlatform(b) \/ WakeUp(b) \/ Deliver(b)
            BY <1>2, <5>1 DEF Begin, StartPlatform, WakeUp, Attempt, Deliver
          <5>2. CASE RefusePlatform(b) \/ PrimaryAnswers(b) \/ RouteAnswers(b)
            BY <1>2, <5>2 DEF RefusePlatform, PrimaryAnswers, RouteAnswers, FallbackResult,
               Record, Onward
          <5>3. CASE PrimaryRefuses(b) \/ PrimaryUnavailable(b) \/ RouteFails(b)
            BY <1>2, <5>3 DEF PrimaryRefuses, PrimaryUnavailable, RouteFails, AttemptFails,
               Record, Onward
          <5> QED
            BY <1>7, <2>3, <5>1, <5>2, <5>3 DEF Publishing, LeaseProxy, LeaseFails
        <4> QED
          BY <4>1, <4>2
      <3>2. Turns(b)
        BY <2>3
      <3> QED
        BY <1>1, <1>3, <3>1, <3>2
    <2>4. CASE At(b, "leasing") /\ ~LeaseProxy(b) /\ ~LeaseFails(b)
      <3>1. Deliver(b) => FALSE
        BY <2>4 DEF Deliver, At
      <3> QED
        BY <1>7, <2>4, <3>1 DEF Publishing, At, Begin, StartPlatform, RefusePlatform, WakeUp,
           PrimaryAnswers, PrimaryRefuses, PrimaryUnavailable, RouteAnswers, RouteFails
    <2> QED
      BY <2>1, <2>2, <2>3, <2>4
  <1> QED
    BY <1>4, <1>5, <1>6, <1>7 DEF Next, Operating

LEMMA RotationInitially == Init => RotationInv
  BY DeliveryAssumption DEF Init, RotationInv, PoolTurns

\* While another endpoint of its pool can be leased, the one leased last is not
\* leased again, for any pools and batches and whatever is registered meanwhile
\* (lease_proxy, register_pool).
THEOREM LeasesTurn == Spec => LeasesRotate
  <1> DEFINE Turns == \A b \in Batches : At(b, "leasing") /\ At(b, "primary")' =>
                 LET pl == Here(b)
                 IN  leasable[pl] \ {leased[pl]} # {} => leased'[pl] # leased[pl]
  <1>1. Init => VerdictsInv /\ RotationInv
    BY VerdictsInitially, RotationInitially
  <1>2. VerdictsInv /\ [Next]_vars => VerdictsInv'
    BY VerdictsStep
  <1>3. VerdictsInv /\ RotationInv /\ [Next]_vars => RotationInv' /\ Turns
    BY RotationStep
  <1>4. VerdictsInv /\ RotationInv /\ [Next]_vars => [Turns]_vars
    BY <1>3
  <1> QED
    BY <1>1, <1>2, <1>3, <1>4, PTL DEF Spec, LeasesRotate

(***************************************************************************)
(* The accounts on platforms: limiters and sessions.                       *)
(***************************************************************************)

Places == [step : {"none", "sleeping", "granted"}, asked : Nat, due : Nat]
Grants == [key : Keys, asked : Nat, left : Nat]

\* When a call that sleeps until due leaves, it keeps its distance from the calls
\* that had left when it asked; the others left after it asked.
PaceKept ==
    /\ moment \in Nat /\ slots \in [Keys -> Nat \cup {NoSlot}]
    /\ pace \in [Senders -> Places] /\ grants \subseteq Grants
    /\ \A g \in grants : slots[g.key] \in Nat /\ g.left <= slots[g.key]
    /\ \A k \in Keys : slots[k] \in Nat => slots[k] <= moment
    /\ \A c \in Senders : pace[c].step = "sleeping" =>
          /\ pace[c].asked <= moment
          /\ \A g \in grants : g.key = TenantOfSender[c] =>
                pace[c].due >= g.left + Interval \/ pace[c].asked <= g.left

\* What is stored was issued, and a client holds what it read or a later session.
SessionsKept ==
    /\ issued \in [SessionTenants -> Nat] /\ DOMAIN sessions = SessionTenants
    /\ opened \in [Senders -> [step : {"closed", "open"}, read : Nat, session : Nat]]
    /\ \A t \in SessionTenants : sessions[t] # NoSession =>
          sessions[t].number \in Nat /\ sessions[t].number <= issued[t]
    /\ \A s \in Senders : opened[s].step = "open" =>
          /\ opened[s].read <= opened[s].session
          /\ opened[s].session <= issued[TenantOfSender[s]]

AccountsInv == PaceKept /\ SessionsKept

LEMMA AccountsInitially == AccountsInit => AccountsInv
  <1> SUFFICES ASSUME AccountsInit PROVE AccountsInv
    OBVIOUS
  <1>1. PaceKept
    BY AccountsAssumption DEF AccountsInit, PaceKept, Unpaced, Places, Grants
  <1>2. SessionsKept
    BY DEF AccountsInit, SessionsKept, Closed
  <1> QED
    BY <1>1, <1>2 DEF AccountsInv

\* A call is let through now, at the time that it was due.
LEMMA GrantStep ==
    ASSUME PaceKept, NEW s \in Senders, NEW asked \in Nat, asked <= moment,
           Grant(s, TenantOfSender[s], asked, moment), moment' = moment,
           \A g \in grants : g.key = TenantOfSender[s] =>
              moment >= g.left + Interval \/ asked <= g.left
    PROVE  PaceKept' /\ \A h \in grants' \ grants : LeavesOnTime(h)
  <1> DEFINE k == TenantOfSender[s]
             call == [key |-> k, asked |-> asked, left |-> moment]
             granted == [step |-> "granted", asked |-> asked, due |-> moment]
  <1>1. k \in Keys /\ moment \in Nat
    BY AccountsAssumption DEF Keys, PaceKept
  <1>2. call \in Grants /\ granted \in Places
    BY <1>1 DEF Grants, Places
  <1>3. /\ slots' = [slots EXCEPT ![k] = moment] /\ grants' = grants \cup {call}
        /\ pace' = [pace EXCEPT ![s] = granted]
    BY DEF Grant
  <1>4. /\ slots' \in [Keys -> Nat \cup {NoSlot}] /\ slots'[k] = moment
        /\ \A j \in Keys \ {k} : slots'[j] = slots[j]
    BY <1>1, <1>3 DEF PaceKept
  <1>5. /\ pace' \in [Senders -> Places] /\ pace'[s].step = "granted"
        /\ \A c \in Senders \ {s} : pace'[c] = pace[c]
    BY <1>2, <1>3 DEF PaceKept
  <1>6. call.key = k /\ call.left = moment /\ call.asked = asked
    OBVIOUS
  <1> HIDE DEF call, k, granted
  <1>7. \A g \in grants' : slots'[g.key] \in Nat /\ g.left <= slots'[g.key]
    <2>1. \A g \in grants : g.key \in Keys /\ g.left \in Nat
      BY DEF PaceKept, Grants
    <2> SUFFICES ASSUME NEW g \in grants \cup {call}
                 PROVE  slots'[g.key] \in Nat /\ g.left <= slots'[g.key]
      BY <1>3
    <2>2. CASE g = call
      BY <2>2, <1>1, <1>4, <1>6
    <2>3. CASE g \in grants /\ g.key = k
      BY <2>1, <2>3, <1>1, <1>4 DEF PaceKept
    <2>4. CASE g \in grants /\ g.key # k
      BY <2>1, <2>4, <1>4 DEF PaceKept
    <2> QED
      BY <2>2, <2>3, <2>4
  <1>8. ASSUME NEW c \in Senders, pace'[c].step = "sleeping"
        PROVE  /\ pace'[c].asked <= moment
               /\ \A g \in grants' : g.key = TenantOfSender[c] =>
                     pace'[c].due >= g.left + Interval \/ pace'[c].asked <= g.left
    <2>1. c # s /\ pace'[c] = pace[c]
      BY <1>5, <1>8
    <2> QED
      BY <2>1, <1>3, <1>6, <1>8 DEF PaceKept
  <1>9. \A j \in Keys : slots'[j] \in Nat => slots'[j] <= moment
    BY <1>1, <1>4 DEF PaceKept
  <1>10. grants' \subseteq Grants
    BY <1>2, <1>3 DEF PaceKept
  <1>11. PaceKept'
    BY <1>1, <1>4, <1>5, <1>7, <1>8, <1>9, <1>10 DEF PaceKept
  <1>12. LeavesOnTime(call)
    BY <1>6 DEF LeavesOnTime, k
  <1> QED
    BY <1>3, <1>11, <1>12

LEMMA AcquireStep ==
    ASSUME AccountsInv, NEW s \in Senders, AcquireSend(s)
    PROVE  AccountsInv' /\ \A h \in grants' \ grants : LeavesOnTime(h)
  <1> DEFINE k == TenantOfSender[s]
  <1>1. k \in Keys /\ moment \in Nat /\ Interval \in Nat /\ PaceKept
    BY AccountsAssumption DEF Keys, AccountsInv, PaceKept
  <1>2. SessionsKept'
    BY DEF AcquireSend, sessionVars, AccountsInv, SessionsKept
  <1>3. \A g \in grants : g.left \in Nat /\ g.key \in Keys
    BY <1>1 DEF PaceKept, Grants
  <1>4. CASE Acquire(s, k) /\ Delay(k) = 0
    <2>1. Grant(s, k, moment, moment) /\ moment' = moment
      BY <1>4 DEF Acquire
    <2>2. slots[k] \in Nat => moment >= slots[k] + Interval
      BY <1>1, <1>4, AccountsAssumption DEF Delay, PaceKept
    <2>3. ASSUME NEW g \in grants, g.key = k
          PROVE  moment >= g.left + Interval
      BY <1>1, <1>3, <2>2, <2>3 DEF PaceKept
    <2>4. moment <= moment
      BY <1>1
    <2> QED
      BY <1>1, <1>2, <2>1, <2>3, <2>4, GrantStep DEF AccountsInv
  <1>5. CASE Acquire(s, k) /\ Delay(k) # 0
    <2> DEFINE asleep == [step |-> "sleeping", asked |-> moment, due |-> moment + Delay(k)]
    <2>1. pace' = [pace EXCEPT ![s] = asleep] /\ UNCHANGED <<slots, grants, moment>>
      BY <1>5 DEF Acquire
    <2>2. slots[k] \in Nat /\ Delay(k) = slots[k] + Interval - moment
          /\ ~(moment >= slots[k] + Interval)
      BY <1>1, <1>5 DEF Delay, PaceKept
    <2>3. moment + Delay(k) = slots[k] + Interval /\ moment + Delay(k) \in Nat
      BY <1>1, <2>2
    <2>4. asleep \in Places /\ asleep.due = slots[k] + Interval /\ asleep.asked = moment
      BY <1>1, <2>3 DEF Places
    <2> HIDE DEF asleep
    <2>5. /\ pace' \in [Senders -> Places] /\ pace'[s] = asleep
          /\ \A c \in Senders \ {s} : pace'[c] = pace[c]
      BY <1>1, <2>1, <2>4 DEF PaceKept
    <2>6. ASSUME NEW c \in Senders, pace'[c].step = "sleeping"
          PROVE  /\ pace'[c].asked <= moment
                 /\ \A g \in grants : g.key = TenantOfSender[c] =>
                       pace'[c].due >= g.left + Interval \/ pace'[c].asked <= g.left
      <3>1. CASE c # s
        BY <1>1, <2>5, <2>6, <3>1 DEF PaceKept
      <3>2. CASE c = s
        <4>1. ASSUME NEW g \in grants, g.key = k PROVE slots[k] + Interval >= g.left + Interval
          <5>1. g.left <= slots[k]
            BY <1>1, <4>1 DEF PaceKept
          <5> QED
            BY <1>1, <1>3, <2>2, <5>1
        <4> QED
          BY <1>1, <2>4, <2>5, <3>2, <4>1
      <3> QED
        BY <3>1, <3>2
    <2>7. PaceKept'
      BY <1>1, <2>1, <2>5, <2>6 DEF PaceKept
    <2> QED
      BY <1>2, <2>1, <2>7 DEF AccountsInv
  <1>6. CASE WakeForSlot(s, k)
    <2>1. /\ Grant(s, k, pace[s].asked, moment) /\ moment' = moment
          /\ pace[s].step = "sleeping" /\ pace[s].due = moment
      BY <1>6 DEF WakeForSlot
    <2>2. pace[s].asked \in Nat /\ pace[s].asked <= moment
      BY <1>1, <2>1 DEF PaceKept, Places
    <2>3. \A g \in grants : g.key = k => moment >= g.left + Interval \/ pace[s].asked <= g.left
      BY <1>1, <2>1 DEF PaceKept
    <2> QED
      BY <1>1, <1>2, <2>1, <2>2, <2>3, GrantStep DEF AccountsInv
  <1> QED
    BY <1>4, <1>5, <1>6 DEF AcquireSend

\* The pace at which calls leave is that of before, but for tasks that end.
LEMMA PaceStays ==
    ASSUME PaceKept, moment' = moment, slots' = slots, grants' = grants,
           pace' = pace \/ \E c \in Senders : Left(c)
    PROVE  PaceKept'
  <1>1. CASE pace' = pace
    BY <1>1 DEF PaceKept
  <1>2. ASSUME NEW c \in Senders, Left(c) PROVE PaceKept'
    <2>1. Unpaced \in Places /\ Unpaced.step = "none"
      BY DEF Unpaced, Places
    <2>2. /\ pace' \in [Senders -> Places] /\ pace'[c] = Unpaced
          /\ \A d \in Senders \ {c} : pace'[d] = pace[d]
      BY <1>2, <2>1 DEF Left, PaceKept
    <2> QED
      BY <2>1, <2>2 DEF PaceKept
  <1> QED
    BY <1>1, <1>2

LEMMA MomentStep ==
    ASSUME AccountsInv, MomentPasses
    PROVE  AccountsInv'
  <1>1. moment' = moment + 1 /\ UNCHANGED <<slots, pace, grants>> /\ UNCHANGED sessionVars
    BY DEF MomentPasses
  <1>2. SessionsKept'
    BY <1>1 DEF sessionVars, AccountsInv, SessionsKept
  <1>3. PaceKept /\ moment \in Nat /\ \A c \in Senders : pace[c].asked \in Nat
    BY DEF AccountsInv, PaceKept, Places
  <1>4. \A n \in Nat : n <= moment => n <= moment + 1
    BY <1>3
  <1>5. PaceKept'
    BY <1>1, <1>3, <1>4 DEF PaceKept
  <1> QED
    BY <1>2, <1>5 DEF AccountsInv

SessionChanges == \A t \in SessionTenants : sessions'[t] # sessions[t] => Replaced(t)

LEMMA LoginStep ==
    ASSUME AccountsInv, NEW t \in SessionTenants, Login(t)
    PROVE  SessionsKept' /\ SessionChanges
  <1> DEFINE number == issued[t] + 1
             stored == [tenant |-> t, number |-> number]
  <1>1. SessionsKept /\ issued[t] \in Nat /\ number \in Nat
    BY DEF AccountsInv, SessionsKept
  <1>2. /\ issued' = [issued EXCEPT ![t] = number] /\ opened' = opened
        /\ sessions' = [sessions EXCEPT ![t] = stored]
    BY DEF Login, SaveSession
  <1>3. stored.number = number /\ stored.tenant = t
    OBVIOUS
  <1> HIDE DEF stored
  <1>4. /\ issued' \in [SessionTenants -> Nat] /\ issued'[t] = number
        /\ DOMAIN sessions' = SessionTenants /\ sessions'[t] = stored
        /\ \A u \in SessionTenants \ {t} : sessions'[u] = sessions[u] /\ issued'[u] = issued[u]
    BY <1>1, <1>2 DEF SessionsKept
  <1>5. \A u \in SessionTenants : issued[u] \in Nat /\ issued'[u] \in Nat /\ issued[u] <= issued'[u]
    BY <1>1, <1>4 DEF SessionsKept
  <1>6. ASSUME NEW s \in Senders, opened[s].step = "open"
        PROVE  opened[s].session <= issued'[TenantOfSender[s]]
    <2>1. TenantOfSender[s] \in SessionTenants /\ opened[s].session \in Nat
      BY <1>1, AccountsAssumption DEF SessionsKept
    <2> QED
      BY <1>1, <1>5, <1>6, <2>1 DEF SessionsKept
  <1>7. \A u \in SessionTenants : sessions'[u] # NoSession =>
           sessions'[u].number \in Nat /\ sessions'[u].number <= issued'[u]
    BY <1>1, <1>3, <1>4 DEF SessionsKept
  <1>8. SessionsKept'
    BY <1>1, <1>2, <1>4, <1>6, <1>7 DEF SessionsKept
  <1>9. Replaced(t)
    BY <1>3, <1>4 DEF Replaced
  <1> QED
    BY <1>4, <1>8, <1>9 DEF SessionChanges

LEMMA OpenStep ==
    ASSUME AccountsInv, NEW s \in Senders, Connect(s) \/ RotateSession(s)
    PROVE  SessionsKept' /\ SessionChanges
  <1> DEFINE t == TenantOfSender[s]
  <1>1. SessionsKept /\ t \in SessionTenants /\ issued[t] \in Nat /\ sessions' = sessions
    BY AccountsAssumption DEF AccountsInv, SessionsKept, Connect, RotateSession
  <1>2. SessionChanges
    BY <1>1 DEF SessionChanges
  <1>3. ASSUME NEW new \in [step : {"closed", "open"}, read : Nat, session : Nat],
               opened' = [opened EXCEPT ![s] = new],
               new.read <= new.session, new.session <= issued'[t],
               issued' \in [SessionTenants -> Nat],
               \A u \in SessionTenants : issued[u] <= issued'[u]
        PROVE  SessionsKept'
    <2>1. /\ opened' \in [Senders -> [step : {"closed", "open"}, read : Nat, session : Nat]]
          /\ opened'[s] = new /\ \A c \in Senders \ {s} : opened'[c] = opened[c]
      BY <1>1, <1>3 DEF SessionsKept
    <2>2. ASSUME NEW n \in Nat, NEW u \in SessionTenants, n <= issued[u] PROVE n <= issued'[u]
      <3>1. issued[u] \in Nat /\ issued'[u] \in Nat /\ issued[u] <= issued'[u]
        BY <1>1, <1>3 DEF SessionsKept
      <3> QED
        BY <2>2, <3>1
    <2>3. ASSUME NEW c \in Senders, opened'[c].step = "open"
          PROVE  /\ opened'[c].read <= opened'[c].session
                 /\ opened'[c].session <= issued'[TenantOfSender[c]]
      <3>1. CASE c = s
        BY <1>3, <2>1, <3>1
      <3>2. CASE c # s
        BY <1>1, <2>1, <2>2, <2>3, <3>2, AccountsAssumption DEF SessionsKept
      <3> QED
        BY <3>1, <3>2
    <2> QED
      BY <1>1, <1>3, <2>1, <2>2, <2>3 DEF SessionsKept
  <1>4. CASE Connect(s)
    <2> DEFINE n == sessions[t].number
               new == [step |-> "open", read |-> n, session |-> n]
    <2>1. n \in Nat /\ n <= issued[t] /\ n <= n
      BY <1>1, <1>4 DEF Connect, SessionsKept
    <2>2. opened' = [opened EXCEPT ![s] = new] /\ issued' = issued
      BY <1>4 DEF Connect
    <2>3. new \in [step : {"closed", "open"}, read : Nat, session : Nat]
          /\ new.read = n /\ new.session = n
      BY <2>1
    <2>4. issued' \in [SessionTenants -> Nat] /\ \A u \in SessionTenants : issued[u] <= issued'[u]
      BY <1>1, <2>2 DEF SessionsKept
    <2> HIDE DEF new, n
    <2>5. SessionsKept'
      BY <1>3, <2>1, <2>2, <2>3, <2>4
    <2> QED
      BY <1>2, <2>5
  <1>5. CASE RotateSession(s)
    <2> DEFINE new == [opened[s] EXCEPT !.session = issued[t] + 1]
    <2>1. /\ opened' = [opened EXCEPT ![s] = new] /\ issued' = [issued EXCEPT ![t] = @ + 1]
          /\ opened[s] \in [step : {"closed", "open"}, read : Nat, session : Nat]
          /\ opened[s].step = "open"
      BY <1>1, <1>5 DEF RotateSession, SessionsKept
    <2>2. new \in [step : {"closed", "open"}, read : Nat, session : Nat]
          /\ new.read = opened[s].read /\ new.session = issued[t] + 1
      BY <1>1, <2>1
    <2> HIDE DEF new
    <2>3. /\ issued' \in [SessionTenants -> Nat] /\ issued'[t] = issued[t] + 1
          /\ \A u \in SessionTenants : issued[u] <= issued'[u]
      BY <1>1, <2>1 DEF SessionsKept
    <2>4. new.read <= new.session /\ new.session <= issued'[t]
      <3>1. /\ opened[s].read \in Nat /\ opened[s].session \in Nat
            /\ opened[s].read <= opened[s].session /\ opened[s].session <= issued[t]
        BY <1>1, <2>1 DEF SessionsKept
      <3> QED
        BY <1>1, <2>2, <2>3, <3>1
    <2>5. SessionsKept'
      BY <1>3, <2>1, <2>2, <2>3, <2>4
    <2> QED
      BY <1>2, <2>5
  <1> QED
    BY <1>4, <1>5

LEMMA CloseStep ==
    ASSUME AccountsInv, NEW s \in Senders, MessageSent(s) \/ ConnectionFails(s)
    PROVE  SessionsKept' /\ SessionChanges
  <1> DEFINE t == TenantOfSender[s]
             stored == [tenant |-> t, number |-> opened[s].session]
  <1>1. SessionsKept /\ t \in SessionTenants /\ issued[t] \in Nat /\ issued' = issued
    BY AccountsAssumption DEF AccountsInv, SessionsKept, MessageSent, ConnectionFails
  <1>2. /\ opened' = [opened EXCEPT ![s] = Closed] /\ opened[s].step = "open"
        /\ opened[s].read \in Nat /\ opened[s].session \in Nat
        /\ opened[s].read <= opened[s].session /\ opened[s].session <= issued[t]
    BY <1>1 DEF MessageSent, ConnectionFails, SessionsKept
  <1>3. \/ sessions' = sessions
        \/ /\ sessions' = [sessions EXCEPT ![t] = stored] /\ pace[s].step = "granted"
           /\ opened[s].session # opened[s].read
    BY DEF MessageSent, ConnectionFails, SaveSession
  <1>4. stored.tenant = t /\ stored.number = opened[s].session
    OBVIOUS
  <1> HIDE DEF stored
  <1>5. /\ opened' \in [Senders -> [step : {"closed", "open"}, read : Nat, session : Nat]]
        /\ opened'[s].step = "closed" /\ \A c \in Senders \ {s} : opened'[c] = opened[c]
    BY <1>1, <1>2 DEF SessionsKept, Closed
  <1>6. CASE sessions' = sessions
    BY <1>1, <1>5, <1>6 DEF SessionsKept, SessionChanges
  <1>7. CASE /\ sessions' = [sessions EXCEPT ![t] = stored] /\ pace[s].step = "granted"
             /\ opened[s].session # opened[s].read
    <2>1. /\ DOMAIN sessions' = SessionTenants /\ sessions'[t] = stored
          /\ \A u \in SessionTenants \ {t} : sessions'[u] = sessions[u]
      BY <1>1, <1>7 DEF SessionsKept
    <2>2. opened[s].read < opened[s].session
      BY <1>2, <1>7
    <2>3. Replaced(t)
      BY <1>2, <1>4, <1>7, <2>1, <2>2 DEF Replaced
    <2>4. \A u \in SessionTenants : sessions'[u] # NoSession =>
             sessions'[u].number \in Nat /\ sessions'[u].number <= issued'[u]
      BY <1>1, <1>2, <1>4, <2>1 DEF SessionsKept
    <2>5. SessionsKept'
      BY <1>1, <1>5, <2>1, <2>4 DEF SessionsKept
    <2> QED
      BY <2>1, <2>3, <2>5 DEF SessionChanges
  <1> QED
    BY <1>3, <1>6, <1>7

LEMMA AccountsStep ==
    ASSUME AccountsInv, [AccountsNext]_accountVars
    PROVE  AccountsInv' /\ SessionChanges /\ \A h \in grants' \ grants : LeavesOnTime(h)
  <1>1. CASE UNCHANGED accountVars
    <2>1. UNCHANGED <<moment, slots, pace, grants, sessions, issued, opened>>
      BY <1>1 DEF accountVars
    <2> QED
      BY <2>1 DEF AccountsInv, PaceKept, SessionsKept, SessionChanges
  <1>2. CASE MomentPasses
    <2>1. grants' = grants /\ sessions' = sessions
      BY <1>2 DEF MomentPasses, sessionVars
    <2> QED
      BY <1>2, <2>1, MomentStep DEF SessionChanges
  <1>3. ASSUME NEW s \in Senders, AcquireSend(s)
        PROVE  AccountsInv' /\ SessionChanges /\ \A h \in grants' \ grants : LeavesOnTime(h)
    <2>1. sessions' = sessions
      BY <1>3 DEF AcquireSend, sessionVars
    <2> QED
      BY <1>3, <2>1, AcquireStep DEF SessionChanges
  <1>4. ASSUME \/ \E t \in SessionTenants : Login(t)
               \/ \E s \in Senders :
                     Connect(s) \/ RotateSession(s) \/ MessageSent(s) \/ ConnectionFails(s)
        PROVE  AccountsInv' /\ SessionChanges /\ \A h \in grants' \ grants : LeavesOnTime(h)
    <2>1. SessionsKept' /\ SessionChanges
      BY <1>4, LoginStep, OpenStep, CloseStep
    <2>2. /\ moment' = moment /\ slots' = slots /\ grants' = grants
          /\ pace' = pace \/ \E c \in Senders : Left(c)
      BY <1>4 DEF Login, Connect, RotateSession, MessageSent, ConnectionFails, paceVars
    <2>3. PaceKept'
      BY <2>2, PaceStays DEF AccountsInv
    <2> QED
      BY <2>1, <2>2, <2>3 DEF AccountsInv
  <1> QED
    BY <1>1, <1>2, <1>3, <1>4 DEF AccountsNext

\* Calls with one key leave an interval apart unless they overlapped, and only a
\* login or a client that sent its message replaces a stored session, for any
\* senders, tenants and interval (acquire of both limiters, connected, publish).
THEOREM AccountsKept == AccountsSpec => AccountsAreKept
  <1>1. ASSUME AccountsInv, [AccountsNext]_accountVars
        PROVE  [/\ \A h \in grants' \ grants : LeavesOnTime(h)
                /\ \A t \in SessionTenants : sessions'[t] # sessions[t] => Replaced(t)]_accountVars
    BY <1>1, AccountsStep DEF SessionChanges
  <1>2. ASSUME AccountsInv, [AccountsNext]_accountVars PROVE AccountsInv'
    BY <1>2, AccountsStep
  <1> QED
    BY <1>1, <1>2, AccountsInitially, PTL DEF AccountsSpec, AccountsAreKept

\* Both at once, for the two parts of the outgoing side.
THEOREM TurnsTaken == AdapterSpec => TurnsAreTaken
  <1> DEFINE others == <<part, vars, clientVars, accountVars, metricVars>>
  <1>1. AdapterInit => Init /\ AccountsInit
    BY DEF AdapterInit
  <1>2. [AdapterNext]_others => [Next]_vars /\ [AccountsNext]_accountVars
    BY DEF AdapterNext, Only
  <1>3. AdapterSpec => Spec /\ AccountsSpec
    BY <1>1, <1>2, PTL DEF AdapterSpec, Spec, AccountsSpec
  <1> QED
    BY <1>3, LeasesTurn, AccountsKept DEF TurnsAreTaken

(***************************************************************************)
(* The metrics of VK posts.                                                *)
(***************************************************************************)

Kinds == {"links", "likes"}

\* What an answer lists of a post is the post's own count, of a time since the
\* collector began.
ReadOf(items, kind) ==
    \A i \in DOMAIN items :
        /\ items[i].post_id \in Posts /\ items[i].count \in Nat
        /\ collected.before[items[i].post_id][kind] <= items[i].count
        /\ items[i].count <= reactions[items[i].post_id][kind]

Bounded(metric, p, kind) ==
    /\ metric \in Nat /\ metric <= reactions[p][kind]
    /\ metric > 0 => collected.before[p][kind] <= metric

PostTrue(p) ==
    LET m == collected.metrics[p]
    IN  /\ Bounded(m.links, p, "links") /\ Bounded(m.likes, p, "likes")
        /\ m.engagement = m.links + m.likes

MetricsInv ==
    /\ DOMAIN collected = {"step", "before", "reach", "metrics", "failed"}
    /\ reactions \in [Posts -> [Kinds -> Nat]]
    /\ collected.before \in [Posts -> [Kinds -> Nat]]
    /\ collected.step \in {"new", "reach", "wall", "done"}
    /\ \A p \in Posts, kind \in Kinds : collected.before[p][kind] <= reactions[p][kind]
    /\ collected.step # "done" => collected.failed = {} /\ collected.metrics = <<>>
    /\ collected.step = "wall" => ReadOf(collected.reach, "links")
    /\ collected.step = "done" =>
          \/ collected.failed = Posts /\ DOMAIN collected.metrics = {}
          \/ /\ collected.failed = {} /\ DOMAIN collected.metrics = Posts
             /\ \A p \in Posts : PostTrue(p)

LEMMA CountRead ==
    ASSUME NEW items, NEW kind \in Kinds, ReadOf(items, kind), NEW p \in Posts,
           reactions \in [Posts -> [Kinds -> Nat]]
    PROVE  Bounded(CountOf(items, p), p, kind)
  <1>1. CASE \E i \in DOMAIN items : items[i].post_id = p
    <2> DEFINE place == CHOOSE i \in DOMAIN items : items[i].post_id = p
    <2>1. place \in DOMAIN items /\ items[place].post_id = p
      BY <1>1
    <2>2. CountOf(items, p) = items[place].count
      BY <1>1 DEF CountOf
    <2> HIDE DEF place
    <2> QED
      BY <2>1, <2>2 DEF ReadOf, Bounded
  <1>2. CASE ~ \E i \in DOMAIN items : items[i].post_id = p
    <2>1. CountOf(items, p) = 0
      BY <1>2 DEF CountOf
    <2>2. reactions[p][kind] \in Nat
      OBVIOUS
    <2> QED
      BY <2>1, <2>2 DEF Bounded
  <1> QED
    BY <1>1, <1>2

LEMMA ListedNow ==
    ASSUME MetricsInv, NEW listing \in Listings, NEW kind \in Kinds
    PROVE  ReadOf(Listed(listing, kind), kind)
  <1>1. \A i \in DOMAIN listing : listing[i] \in Posts
    BY DEF Listings
  <1> QED
    BY <1>1 DEF ReadOf, Listed, MetricsInv

LEMMA MetricsInitially == MetricsInit => MetricsInv
  <1> SUFFICES ASSUME MetricsInit PROVE MetricsInv
    OBVIOUS
  <1>1. reactions \in [Posts -> [Kinds -> Nat]]
    <2>1. [links |-> 0, likes |-> 0] \in [Kinds -> Nat]
      BY DEF Kinds
    <2> QED
      BY <2>1 DEF MetricsInit
  <1>2. /\ collected.step = "new" /\ collected.before = reactions /\ collected.failed = {}
        /\ collected.metrics = <<>>
        /\ DOMAIN collected = {"step", "before", "reach", "metrics", "failed"}
    BY DEF MetricsInit
  <1>3. \A p \in Posts, kind \in Kinds : reactions[p][kind] <= reactions[p][kind]
    BY <1>1
  <1> QED
    BY <1>1, <1>2, <1>3 DEF MetricsInv

LEMMA ReactStep ==
    ASSUME MetricsInv, NEW p \in Posts, NEW kind \in Kinds, React(p, kind)
    PROVE  MetricsInv'
  <1> DEFINE old == reactions[p]
             new == [old EXCEPT ![kind] = @ + 1]
  <1>1. old \in [Kinds -> Nat] /\ reactions' = [reactions EXCEPT ![p] = new]
    BY DEF React, MetricsInv
  <1>2. new \in [Kinds -> Nat] /\ \A k \in Kinds : old[k] <= new[k]
    BY <1>1
  <1> HIDE DEF new
  <1>3. /\ reactions' \in [Posts -> [Kinds -> Nat]] /\ collected' = collected
        /\ reactions'[p] = new /\ \A q \in Posts \ {p} : reactions'[q] = reactions[q]
    BY <1>1, <1>2 DEF React, MetricsInv
  <1>4. \A q \in Posts, k \in Kinds : reactions[q][k] \in Nat /\ reactions'[q][k] \in Nat
                                      /\ collected.before[q][k] \in Nat
    BY <1>3 DEF MetricsInv
  <1>5. \A q \in Posts, k \in Kinds : reactions[q][k] <= reactions'[q][k]
    <2> SUFFICES ASSUME NEW q \in Posts, NEW k \in Kinds
                 PROVE  reactions[q][k] <= reactions'[q][k]
      OBVIOUS
    <2>1. CASE q = p
      BY <2>1, <1>2, <1>3
    <2>2. CASE q # p
      BY <2>2, <1>3, <1>4
    <2> QED
      BY <2>1, <2>2
  <1>6. \A q \in Posts, k \in Kinds : collected.before[q][k] <= reactions'[q][k]
    BY <1>4, <1>5 DEF MetricsInv
  <1>7. ASSUME NEW n \in Nat, NEW q \in Posts, NEW k \in Kinds, n <= reactions[q][k]
        PROVE  n <= reactions'[q][k]
    <2>1. /\ reactions[q][k] \in Nat /\ reactions'[q][k] \in Nat
          /\ reactions[q][k] <= reactions'[q][k]
      BY <1>4, <1>5
    <2> QED
      BY <1>7, <2>1
  <1>8. collected.step = "wall" => ReadOf(collected.reach, "links")'
    BY <1>3, <1>7 DEF MetricsInv, ReadOf, Kinds
  <1>9. \A q \in Posts : PostTrue(q) => PostTrue(q)'
    BY <1>3, <1>7 DEF PostTrue, Bounded, Kinds
  <1> HIDE DEF old
  <1> QED
    BY <1>3, <1>6, <1>8, <1>9 DEF MetricsInv

LEMMA CollectStep ==
    ASSUME MetricsInv,
           \/ BeginCollect \/ CallFails
           \/ \E listing \in Listings : ReachAnswered(listing) \/ WallAnswered(listing)
    PROVE  MetricsInv'
  <1>1. reactions' = reactions
    BY DEF BeginCollect, CallFails, ReachAnswered, WallAnswered
  <1>2. CASE BeginCollect
    <2>1. /\ DOMAIN collected' = DOMAIN collected /\ collected'.step = "reach"
          /\ collected'.before = reactions /\ collected'.failed = collected.failed
          /\ collected'.metrics = collected.metrics /\ collected.step = "new"
      BY <1>2 DEF BeginCollect, MetricsInv
    <2>2. \A p \in Posts, kind \in Kinds : reactions[p][kind] <= reactions[p][kind]
      BY DEF MetricsInv
    <2> QED
      BY <1>1, <2>1, <2>2 DEF MetricsInv
  <1>3. CASE CallFails
    <2>1. /\ DOMAIN collected' = DOMAIN collected /\ collected'.step = "done"
          /\ collected'.before = collected.before /\ collected'.failed = Posts
          /\ collected'.metrics = collected.metrics /\ collected.step # "done"
      BY <1>3 DEF CallFails, MetricsInv
    <2> QED
      BY <1>1, <2>1 DEF MetricsInv
  <1>4. ASSUME NEW listing \in Listings, ReachAnswered(listing) PROVE MetricsInv'
    <2>1. ReadOf(Listed(listing, "links"), "links")
      BY ListedNow DEF Kinds
    <2>2. /\ DOMAIN collected' = DOMAIN collected /\ collected'.step = "wall"
          /\ collected'.before = collected.before /\ collected'.failed = collected.failed
          /\ collected'.metrics = collected.metrics /\ collected.step # "done"
          /\ collected'.reach = Listed(listing, "links")
      BY <1>4 DEF ReachAnswered, MetricsInv
    <2>3. ReadOf(collected.reach, "links")'
      BY <1>1, <2>1, <2>2 DEF ReadOf, Listed
    <2> QED
      BY <1>1, <2>2, <2>3 DEF MetricsInv
  <1>5. ASSUME NEW listing \in Listings, WallAnswered(listing) PROVE MetricsInv'
    <2> DEFINE wall == Listed(listing, "likes")
               metrics == [p \in Posts |-> PostMetrics(p, collected.reach, wall)]
    <2>1. ReadOf(wall, "likes") /\ ReadOf(collected.reach, "links")
      BY <1>5, ListedNow DEF Kinds, WallAnswered, MetricsInv
    <2>2. /\ DOMAIN collected' = DOMAIN collected /\ collected'.step = "done"
          /\ collected'.before = collected.before /\ collected'.failed = {}
          /\ collected'.metrics = metrics
      BY <1>5 DEF WallAnswered, MetricsInv
    <2>3. ASSUME NEW p \in Posts
          PROVE  LET m == metrics[p]
                 IN  /\ Bounded(m.links, p, "links") /\ Bounded(m.likes, p, "likes")
                     /\ m.engagement = m.links + m.likes
      <3> HIDE DEF wall
      <3>1. /\ metrics[p].links = CountOf(collected.reach, p)
            /\ metrics[p].likes = CountOf(wall, p)
            /\ metrics[p].engagement = CountOf(collected.reach, p) + CountOf(wall, p)
        BY DEF PostMetrics
      <3>2. Bounded(CountOf(collected.reach, p), p, "links")
        BY <2>1, CountRead DEF MetricsInv, Kinds
      <3>3. Bounded(CountOf(wall, p), p, "likes")
        BY <2>1, CountRead DEF MetricsInv, Kinds
      <3> HIDE DEF metrics
      <3> QED
        BY <3>1, <3>2, <3>3
    <2>4. DOMAIN metrics = Posts
      OBVIOUS
    <2> HIDE DEF metrics, wall
    <2>5. \A p \in Posts : PostTrue(p)'
      BY <1>1, <2>2, <2>3 DEF PostTrue, Bounded
    <2> QED
      BY <1>1, <2>2, <2>4, <2>5 DEF MetricsInv
  <1> QED
    BY <1>2, <1>3, <1>4, <1>5

LEMMA MetricsFollow == MetricsInv => MetricsAddUp
  <1> SUFFICES ASSUME MetricsInv, collected.step = "done" PROVE MetricsAddUp
    BY DEF MetricsAddUp
  <1>1. CASE collected.failed = Posts /\ DOMAIN collected.metrics = {}
    BY <1>1, PostsAssumption DEF MetricsAddUp
  <1>2. CASE collected.failed = {} /\ DOMAIN collected.metrics = Posts
    <2>1. ASSUME NEW p \in Posts
          PROVE  LET m == collected.metrics[p]
                 IN  /\ m.links <= reactions[p].links /\ m.likes <= reactions[p].likes
                     /\ m.links > 0 /\ m.likes > 0 =>
                           m.engagement >= collected.before[p].links + collected.before[p].likes
      <3> DEFINE m == collected.metrics[p]
      <3>1. /\ Bounded(m.links, p, "links") /\ Bounded(m.likes, p, "likes")
            /\ m.engagement = m.links + m.likes
        BY <1>2, PostsAssumption DEF MetricsInv, PostTrue
      <3>2. collected.before[p].links \in Nat /\ collected.before[p].likes \in Nat
        BY DEF MetricsInv, Kinds
      <3> HIDE DEF m
      <3>3. /\ m.links \in Nat /\ m.links <= reactions[p].links
            /\ m.links > 0 => collected.before[p].links <= m.links
        BY <3>1 DEF Bounded
      <3>4. /\ m.likes \in Nat /\ m.likes <= reactions[p].likes
            /\ m.likes > 0 => collected.before[p].likes <= m.likes
        BY <3>1 DEF Bounded
      <3> QED
        BY <3>1, <3>2, <3>3, <3>4 DEF m
    <2> QED
      BY <1>2, <2>1, PostsAssumption DEF MetricsAddUp
  <1> QED
    BY <1>1, <1>2 DEF MetricsInv

\* A batch of metrics is whole or failed, and what it says of a post lies between
\* the counts at its start and now, for any posts, readers and orders of the answers
\* (collect, _vk_post_metrics).
THEOREM MetricsTrue == MetricsSpec => []MetricsAddUp
  <1>1. MetricsInit => MetricsInv
    BY MetricsInitially
  <1>2. MetricsInv /\ [MetricsNext]_metricVars => MetricsInv'
    <2> SUFFICES ASSUME MetricsInv, [MetricsNext]_metricVars PROVE MetricsInv'
      OBVIOUS
    <2>1. CASE UNCHANGED metricVars
      BY <2>1 DEF metricVars, MetricsInv, ReadOf, PostTrue, Bounded
    <2>2. ASSUME NEW p \in Posts, NEW kind \in {"links", "likes"}, React(p, kind)
          PROVE  MetricsInv'
      BY <2>2, ReactStep DEF Kinds
    <2> QED
      BY <2>1, <2>2, CollectStep DEF MetricsNext
  <1>3. MetricsInv => MetricsAddUp
    BY MetricsFollow
  <1> QED
    BY <1>1, <1>2, <1>3, PTL DEF MetricsSpec

(***************************************************************************)
(* The publishers of the platforms and what they read in the answers.      *)
(***************************************************************************)

DeliveryFields == {"step", "attempt", "token", "error"}
DeliverySteps == {"new", "ready", "waiting", "succeeded", "failed"}

\* A request bears the token that its publication was begun with, and the key of
\* its publication or none.
RequestTrue(r) ==
    /\ r.publication \in Publications
    /\ r.token = delivery[r.publication].token
    /\ r.token.tenant = AccountOf[r.publication]
    /\ r.key \in {NoKey, r.publication}
    /\ client = "dzen" => r.key = r.publication
    /\ client = "http" => r.allowed
    /\ r.attempt \in Nat /\ delivery[r.publication].step # "new"
    /\ r.attempt <= delivery[r.publication].attempt
    /\ delivery[r.publication].step = "ready" => r.attempt < delivery[r.publication].attempt

WireTrue(p) ==
    /\ wire[p] \in requests /\ wire[p].publication = p
    /\ wire[p].attempt = delivery[p].attempt /\ delivery[p].step = "waiting"

DeliveryTrue(p) ==
    /\ DOMAIN delivery[p] = DeliveryFields /\ delivery[p].step \in DeliverySteps
    /\ delivery[p].attempt \in Nat /\ (delivery[p].step = "new" => delivery[p].attempt = 0)
    /\ delivery[p].step \in {"ready", "waiting"} => delivery[p].token.tenant = AccountOf[p]

RequestsTrue ==
    /\ \A r \in requests : RequestTrue(r)
    /\ \A r, s \in requests : r.publication = s.publication /\ r.attempt = s.attempt => r = s

PostsTrue ==
    /\ made \subseteq requests
    /\ \A m, n \in made : m.key # NoKey /\ m.key = n.key => m = n

ClientsInv ==
    /\ client \in Clients /\ DOMAIN delivery = Publications /\ DOMAIN wire = Publications
    /\ \A p \in Publications : DeliveryTrue(p) /\ (wire[p] # NoAnswer => WireTrue(p))
    /\ RequestsTrue /\ PostsTrue /\ AnswersAreUnderstood

LEMMA ClientsInitially == ClientsInit => ClientsInv
  <1> SUFFICES ASSUME ClientsInit PROVE ClientsInv
    OBVIOUS
  <1>1. \A p \in Publications :
           delivery[p] = [step |-> "new", attempt |-> 0, token |-> NoAnswer, error |-> "none"]
    BY DEF ClientsInit
  <1>2. \A p \in Publications : DeliveryTrue(p) /\ wire[p] = NoAnswer
    BY <1>1 DEF ClientsInit, DeliveryTrue, DeliveryFields, DeliverySteps
  <1>3. AnswersAreUnderstood
    BY <1>1 DEF AnswersAreUnderstood
  <1> QED
    BY <1>2, <1>3 DEF ClientsInit, ClientsInv, RequestsTrue, PostsTrue

\* The key is that of the publication, or none is sent.
LEMMA RequestSent ==
    ASSUME ClientsInv, NEW p \in Publications
    PROVE  \E key \in {NoKey, p} : /\ RequestOf(p) = Request(p, key)
                                   /\ client = "dzen" => key = p
  BY DEF ClientsInv, Clients, RequestOf, VKRequest, OKRequest, DzenRequest, TelegramRequest,
         TelethonRequest, HTTPRequest

\* Whoever answers for a platform that has made the post, no publisher takes the
\* answer for a refusal, but Telegram's that could not be read; and none takes for
\* a post what the platform did not make.
LEMMA AnswerRead ==
    ASSUME ClientsInv, NEW p \in Publications, NEW a \in Answers(p)
    PROVE  /\ wire[p] \in made \/ Known(wire[p]) =>
                 \/ VerdictOf(a) = "posted" \/ Retryable(VerdictOf(a))
                 \/ client = "telegram" /\ VerdictOf(a) = "publication_failed"
           /\ VerdictOf(a) = "posted" => wire[p] \in made \/ Known(wire[p])
  <1>1. client \in Clients
    BY DEF ClientsInv
  <1>2. CASE wire[p] \in made \/ Known(wire[p])
    <2>1. \/ a.status = "success" /\ a.kind = "none" /\ a.named \in BOOLEAN
          \/ a.status = "5xx" /\ a.kind = "none" /\ a.named = FALSE
      BY <1>2 DEF Answers
    <2>2. CASE a.status = "success" /\ a.kind = "none" /\ a.named \in BOOLEAN
      BY <1>1, <1>2, <2>2
         DEF Clients, VerdictOf, VKVerdict, OKVerdict, DzenVerdict, TelegramVerdict,
             TelethonVerdict, HTTPVerdict, Read, Success, Posted, Retryable
    <2>3. CASE a.status = "5xx" /\ a.kind = "none"
      BY <1>1, <1>2, <2>3
         DEF Clients, VerdictOf, VKVerdict, OKVerdict, DzenVerdict, TelegramVerdict,
             TelethonVerdict, HTTPVerdict, Read, Success, Posted, Retryable
    <2> QED
      BY <2>1, <2>2, <2>3
  <1>3. CASE ~(wire[p] \in made \/ Known(wire[p]))
    <2>1. a.named = FALSE /\ ~Read(a)
      BY <1>3 DEF Answers, Read, Success
    <2>2. VerdictOf(a) # "posted"
      BY <1>1, <2>1
         DEF Clients, VerdictOf, VKVerdict, OKVerdict, DzenVerdict, TelegramVerdict,
             TelethonVerdict, HTTPVerdict, Refused
    <2> QED
      BY <1>3, <2>2
  <1> QED
    BY <1>2, <1>3

\* A step of one publication, or of none, that sends nothing and posts nothing.
LEMMA OneDelivery ==
    ASSUME ClientsInv, NEW p \in Publications, NEW new,
           client' = client, requests' = requests, made' = made,
           delivery' = [delivery EXCEPT ![p] = new],
           \A q \in Publications : q # p => wire'[q] = wire[q],
           DOMAIN wire' = Publications, wire'[p] = NoAnswer,
           DOMAIN new = DeliveryFields, new.step \in DeliverySteps \ {"new"},
           new.attempt \in Nat, delivery[p].attempt <= new.attempt,
           delivery[p].step # "new" => new.token = delivery[p].token,
           new.step = "ready" => /\ new.token.tenant = AccountOf[p]
                                 /\ delivery[p].step # "new" => delivery[p].attempt < new.attempt,
           new.step # "waiting",
           new.step = "succeeded" => \E m \in PostsOf(p) : m.attempt = new.attempt \/ m.key = p,
           new.step = "failed" /\ ~Retryable(new.error) =>
               \/ \A m \in PostsOf(p) : m.attempt # new.attempt
               \/ client = "telegram" /\ new.error = "publication_failed"
    PROVE  ClientsInv'
  <1>1. /\ delivery'[p] = new /\ DOMAIN delivery' = Publications
        /\ \A q \in Publications \ {p} : delivery'[q] = delivery[q]
    BY DEF ClientsInv
  <1>2. ASSUME NEW q \in Publications
        PROVE  DeliveryTrue(q)' /\ (wire'[q] # NoAnswer => WireTrue(q)')
    <2>1. CASE q = p
      BY <2>1, <1>1 DEF DeliveryTrue
    <2>2. CASE q # p
      BY <2>2, <1>1 DEF DeliveryTrue, WireTrue, ClientsInv
    <2> QED
      BY <2>1, <2>2
  <1>3. ASSUME NEW r \in requests PROVE RequestTrue(r)'
    <2>1. RequestTrue(r)
      BY DEF ClientsInv, RequestsTrue
    <2>2. CASE r.publication = p
      <3>1. /\ r.attempt \in Nat /\ delivery[p].attempt \in Nat
            /\ delivery[p].step # "new" /\ r.attempt <= delivery[p].attempt
        BY <2>1, <2>2 DEF RequestTrue, ClientsInv, DeliveryTrue
      <3>2. r.attempt <= new.attempt /\ (new.step = "ready" => r.attempt < new.attempt)
        BY <3>1
      <3> QED
        BY <1>1, <2>1, <2>2, <3>1, <3>2 DEF RequestTrue
    <2>3. CASE r.publication # p
      BY <1>1, <2>1, <2>3 DEF RequestTrue
    <2> QED
      BY <2>2, <2>3
  <1>4. RequestsTrue'
    BY <1>3 DEF RequestsTrue, ClientsInv
  <1>5. AnswersAreUnderstood'
    BY <1>1 DEF AnswersAreUnderstood, ClientsInv, PostsOf
  <1> QED
    BY <1>1, <1>2, <1>4, <1>5 DEF ClientsInv, PostsTrue

LEMMA NothingSent ==
    ASSUME ClientsInv, UNCHANGED <<client, delivery, wire, requests, made>>
    PROVE  ClientsInv'
  BY DEF ClientsInv, DeliveryTrue, WireTrue, RequestsTrue, RequestTrue, PostsTrue,
         AnswersAreUnderstood, PostsOf

LEMMA BeginStep ==
    ASSUME ClientsInv, NEW p \in Publications, BeginPublish(p)
    PROVE  ClientsInv'
  <1> DEFINE t == AccountOf[p]
             ready == [step |-> "ready", attempt |-> 1, token |-> RequireToken(t), error |-> "none"]
             paused == [delivery[p] EXCEPT !.step = "failed", !.error = "platform_paused"]
  <1>1. DeliveryTrue(p) /\ delivery[p].step = "new" /\ (wire[p] # NoAnswer => WireTrue(p))
    BY DEF ClientsInv, BeginPublish
  <1>2. wire[p] = NoAnswer
    BY <1>1 DEF WireTrue
  <1>3. \A m \in made : m.publication # p
    BY <1>1 DEF ClientsInv, PostsTrue, RequestsTrue, RequestTrue
  <1>4. CASE delivery' = [delivery EXCEPT ![p] = ready] /\ DecryptToken(RequireToken(t), t)
    <2>1. /\ DOMAIN ready = DeliveryFields /\ ready.step = "ready" /\ ready.attempt = 1
          /\ ready.token.tenant = t
      BY <1>4 DEF DecryptToken, DeliveryFields
    <2>2. delivery[p].attempt \in Nat /\ ready.attempt \in Nat
      BY <1>1, <2>1 DEF DeliveryTrue
    <2>3. ClientsInv /\ requests' = requests /\ made' = made /\ wire' = wire /\ client' = client
      BY DEF BeginPublish
    <2>4. /\ \A q \in Publications : q # p => wire'[q] = wire[q]
          /\ DOMAIN wire' = Publications /\ wire'[p] = NoAnswer
      BY <1>2, <2>3 DEF ClientsInv
    <2> HIDE DEF ready
    <2>5. delivery[p].attempt <= ready.attempt
      <3>1. delivery[p].attempt = 0
        BY <1>1 DEF DeliveryTrue
      <3> QED
        BY <2>1, <3>1
    <2> QED
      BY <1>1, <1>4, <2>1, <2>2, <2>3, <2>4, <2>5, OneDelivery DEF DeliverySteps
  <1>5. CASE delivery' = [delivery EXCEPT ![p] = paused]
    <2>1. /\ DOMAIN paused = DeliveryFields /\ paused.step = "failed"
          /\ paused.attempt = delivery[p].attempt /\ paused.token = delivery[p].token
      BY <1>1 DEF DeliveryTrue, DeliveryFields
    <2>2. delivery[p].attempt \in Nat
      BY <1>1 DEF DeliveryTrue
    <2>3. requests' = requests /\ made' = made /\ wire' = wire /\ client' = client
      BY DEF BeginPublish
    <2>4. /\ \A q \in Publications : q # p => wire'[q] = wire[q]
          /\ DOMAIN wire' = Publications /\ wire'[p] = NoAnswer
      BY <1>2, <2>3 DEF ClientsInv
    <2> HIDE DEF paused
    <2>5. /\ \A m \in PostsOf(p) : m.attempt # paused.attempt
          /\ paused.attempt \in Nat /\ delivery[p].attempt <= paused.attempt
      BY <1>3, <2>1, <2>2 DEF PostsOf
    <2> QED
      BY <1>1, <1>5, <2>1, <2>2, <2>3, <2>4, <2>5, OneDelivery DEF DeliverySteps
  <1> QED
    BY <1>4, <1>5 DEF BeginPublish, GiveUp

LEMMA SendStep ==
    ASSUME ClientsInv, NEW p \in Publications, Send(p)
    PROVE  ClientsInv'
  <1>1. DeliveryTrue(p) /\ delivery[p].step = "ready" /\ (wire[p] # NoAnswer => WireTrue(p))
    BY DEF ClientsInv, Send
  <1>2. wire[p] = NoAnswer
    BY <1>1 DEF WireTrue
  <1>3. \A r \in requests : r.publication = p =>
            r.attempt \in Nat /\ r.attempt < delivery[p].attempt
    BY <1>1 DEF ClientsInv, RequestsTrue, RequestTrue
  <1>4. delivery[p].attempt \in Nat /\ delivery[p].token.tenant = AccountOf[p]
    BY <1>1 DEF DeliveryTrue
  <1>5. CASE client = "http" /\ ConfigError(p) # "none"
    <2> DEFINE refused == [delivery[p] EXCEPT !.step = "failed", !.error = ConfigError(p)]
    <2>1. /\ DOMAIN refused = DeliveryFields /\ refused.step = "failed"
          /\ refused.attempt = delivery[p].attempt /\ refused.token = delivery[p].token
      BY <1>1 DEF DeliveryTrue, DeliveryFields
    <2>2. delivery' = [delivery EXCEPT ![p] = refused]
      BY <1>5 DEF Send, GiveUp
    <2>3. requests' = requests /\ made' = made /\ wire' = wire /\ client' = client
      BY <1>5 DEF Send
    <2>4. /\ \A q \in Publications : q # p => wire'[q] = wire[q]
          /\ DOMAIN wire' = Publications /\ wire'[p] = NoAnswer
      BY <1>2, <2>3 DEF ClientsInv
    <2> HIDE DEF refused
    <2>5. /\ \A m \in PostsOf(p) : m.attempt # refused.attempt
          /\ refused.attempt \in Nat /\ delivery[p].attempt <= refused.attempt
      BY <1>3, <1>4, <2>1 DEF PostsOf, ClientsInv, PostsTrue
    <2> QED
      BY <1>1, <1>4, <2>1, <2>2, <2>3, <2>4, <2>5, OneDelivery DEF DeliverySteps
  <1>6. CASE ~(client = "http" /\ ConfigError(p) # "none")
    <2> PICK sent : sent = RequestOf(p)
      OBVIOUS
    <2> DEFINE waiting == [delivery[p] EXCEPT !.step = "waiting"]
    <2>1. PICK key \in {NoKey, p} : sent = Request(p, key) /\ (client = "dzen" => key = p)
      BY RequestSent
    <2>2. /\ sent.publication = p /\ sent.attempt = delivery[p].attempt
          /\ sent.token = delivery[p].token /\ sent.key = key
          /\ sent.allowed = Active(AccountOf[p])
      BY <2>1 DEF Request
    <2>3. client = "http" => Active(AccountOf[p])
      BY <1>6 DEF ConfigError
    <2>4. /\ delivery' = [delivery EXCEPT ![p] = waiting] /\ wire' = [wire EXCEPT ![p] = sent]
          /\ requests' = requests \cup {sent} /\ made' = made /\ client' = client
      BY <1>6 DEF Send
    <2>5. /\ DOMAIN waiting = DeliveryFields /\ waiting.step = "waiting"
          /\ waiting.attempt = delivery[p].attempt /\ waiting.token = delivery[p].token
      BY <1>1 DEF DeliveryTrue, DeliveryFields
    <2> HIDE DEF waiting
    <2>6. /\ delivery'[p] = waiting /\ DOMAIN delivery' = Publications
          /\ wire'[p] = sent /\ DOMAIN wire' = Publications
          /\ \A q \in Publications \ {p} : delivery'[q] = delivery[q] /\ wire'[q] = wire[q]
      BY <2>4 DEF ClientsInv
    <2>7. ASSUME NEW q \in Publications
          PROVE  DeliveryTrue(q)' /\ (wire'[q] # NoAnswer => WireTrue(q)')
      <3>1. CASE q = p
        BY <3>1, <1>1, <1>4, <2>2, <2>4, <2>5, <2>6 DEF DeliveryTrue, WireTrue, DeliverySteps
      <3>2. CASE q # p
        BY <3>2, <2>4, <2>6 DEF DeliveryTrue, WireTrue, ClientsInv
      <3> QED
        BY <3>1, <3>2
    <2>8. RequestTrue(sent)'
      <3>1. client = "http" => sent.allowed
        BY <2>2, <2>3, Zenon
      <3>2. sent.attempt \in Nat /\ sent.attempt <= waiting.attempt
        BY <1>4, <2>2, <2>5
      <3>3. /\ sent.publication \in Publications
            /\ sent.token = delivery'[sent.publication].token
            /\ sent.token.tenant = AccountOf[sent.publication]
            /\ sent.key \in {NoKey, sent.publication}
            /\ client' = "dzen" => sent.key = sent.publication
            /\ sent.attempt \in Nat /\ delivery'[sent.publication].step = "waiting"
            /\ sent.attempt <= delivery'[sent.publication].attempt
        BY <1>4, <2>1, <2>2, <2>4, <2>5, <2>6, <3>2
      <3>4. client' = "http" => sent.allowed
        BY <2>4, <3>1, Zenon
      <3>5. /\ delivery'[sent.publication].step # "new"
            /\ delivery'[sent.publication].step # "ready"
        BY <3>3
      <3> QED
        BY <3>3, <3>4, <3>5, Zenon DEF RequestTrue
    <2>9. ASSUME NEW r \in requests PROVE RequestTrue(r)'
      <3>1. RequestTrue(r)
        BY DEF ClientsInv, RequestsTrue
      <3> QED
        BY <3>1, <2>4, <2>5, <2>6, <1>1 DEF RequestTrue
    <2>10. RequestsTrue'
      <3>1. \A r \in requests : ~(r.publication = sent.publication /\ r.attempt = sent.attempt)
        BY <1>3, <1>4, <2>2
      <3>2. \A r, s \in requests :
               r.publication = s.publication /\ r.attempt = s.attempt => r = s
        BY DEF RequestsTrue, ClientsInv
      <3>3. \A r, s \in requests' :
               r.publication = s.publication /\ r.attempt = s.attempt => r = s
        <4> SUFFICES ASSUME NEW r \in requests \cup {sent}, NEW s \in requests \cup {sent},
                            r.publication = s.publication, r.attempt = s.attempt
                     PROVE  r = s
          BY <2>4, Zenon
        <4>1. CASE r \in requests /\ s \in requests
          BY <4>1, <3>2, Zenon
        <4>2. CASE r = sent /\ s = sent
          BY <4>2
        <4>3. ~(r \in requests /\ s = sent) /\ ~(r = sent /\ s \in requests)
          BY <3>1, Zenon
        <4> QED
          BY <4>1, <4>2, <4>3
      <3>4. \A r \in requests' : RequestTrue(r)'
        BY <2>4, <2>8, <2>9
      <3> QED
        BY <3>3, <3>4 DEF RequestsTrue
    <2>11. AnswersAreUnderstood'
      BY <2>4, <2>5, <2>6 DEF AnswersAreUnderstood, ClientsInv, PostsOf
    <2>12. PostsTrue'
      BY <2>4 DEF PostsTrue, ClientsInv
    <2> QED
      BY <2>4, <2>6, <2>7, <2>10, <2>11, <2>12 DEF ClientsInv
  <1> QED
    BY <1>5, <1>6

LEMMA CarryOutStep ==
    ASSUME ClientsInv, NEW p \in Publications, CarryOut(p)
    PROVE  ClientsInv'
  <1>1. WireTrue(p) /\ RequestTrue(wire[p])
    BY DEF ClientsInv, CarryOut, WireTrue, RequestsTrue
  <1>2. /\ made' = made \cup {wire[p]} /\ ~Known(wire[p])
        /\ UNCHANGED <<client, delivery, wire, requests>>
    BY DEF CarryOut
  <1>3. PostsTrue'
    BY <1>1, <1>2 DEF PostsTrue, ClientsInv, WireTrue, Known
  <1>4. ASSUME NEW q \in Publications,
               delivery[q].step \in {"succeeded", "failed"}
        PROVE  PostsOf(q)' = PostsOf(q)
    <2>1. q # p /\ wire[p].publication = p
      BY <1>1, <1>4 DEF WireTrue
    <2> QED
      BY <1>2, <2>1 DEF PostsOf
  <1>5. AnswersAreUnderstood'
    BY <1>2, <1>4 DEF AnswersAreUnderstood, ClientsInv
  <1>6. (\A q \in Publications : DeliveryTrue(q) /\ (wire[q] # NoAnswer => WireTrue(q)))'
    BY <1>2 DEF ClientsInv, DeliveryTrue, WireTrue
  <1>7. RequestsTrue'
    BY <1>2 DEF ClientsInv, RequestsTrue, RequestTrue
  <1> QED
    BY <1>2, <1>3, <1>5, <1>6, <1>7 DEF ClientsInv

LEMMA ConcludeStep ==
    ASSUME ClientsInv, NEW p \in Publications, NEW verdict, wire[p] # NoAnswer,
           Conclude(p, verdict), wire' = [wire EXCEPT ![p] = NoAnswer],
           UNCHANGED <<client, requests, made>>,
           verdict = "posted" => wire[p] \in made \/ Known(wire[p]),
           wire[p] \in made \/ Known(wire[p]) =>
              \/ verdict = "posted" \/ Retryable(verdict)
              \/ client = "telegram" /\ verdict = "publication_failed"
    PROVE  ClientsInv'
  <1> DEFINE old == delivery[p]
             new == IF verdict = "posted" THEN [old EXCEPT !.step = "succeeded"]
                    ELSE IF Retryable(verdict) /\ old.attempt < Attempts
                    THEN [old EXCEPT !.step = "ready", !.attempt = old.attempt + 1]
                    ELSE [old EXCEPT !.step = "failed", !.error = verdict]
  <1>1. DeliveryTrue(p) /\ WireTrue(p) /\ RequestTrue(wire[p])
    BY DEF ClientsInv, RequestsTrue, WireTrue
  <1>2. /\ delivery' = [delivery EXCEPT ![p] = new]
        /\ \A q \in Publications : q # p => wire'[q] = wire[q]
        /\ DOMAIN wire' = Publications /\ wire'[p] = NoAnswer
    <2>1. delivery' = [delivery EXCEPT ![p] = new]
      BY DEF Conclude
    <2>2. DOMAIN wire = Publications
      BY DEF ClientsInv
    <2> HIDE DEF new
    <2> QED
      BY <2>1, <2>2
  <1>3. old.attempt \in Nat /\ old.step = "waiting" /\ old.token.tenant = AccountOf[p]
    BY <1>1 DEF DeliveryTrue, WireTrue
  <1>4. /\ DOMAIN new = DeliveryFields /\ new.step \in {"succeeded", "ready", "failed"}
        /\ new.token = old.token /\ new.attempt \in {old.attempt, old.attempt + 1}
        /\ new.step = "ready" => new.attempt = old.attempt + 1
        /\ new.step # "ready" => new.attempt = old.attempt
        /\ new.step = "succeeded" => verdict = "posted"
        /\ new.step = "failed" => verdict # "posted" /\ new.error = verdict
    BY <1>1, <1>3 DEF DeliveryTrue, DeliveryFields
  <1> HIDE DEF new, old
  <1>5. /\ new.attempt \in Nat /\ old.attempt <= new.attempt
        /\ new.step = "ready" => old.attempt < new.attempt
    BY <1>3, <1>4
  <1>6. ASSUME wire[p] \in made \/ Known(wire[p])
        PROVE  \E m \in PostsOf(p) : m.attempt = old.attempt \/ m.key = p
    <2>1. CASE wire[p] \in made
      BY <1>1, <2>1 DEF PostsOf, WireTrue, old
    <2>2. CASE Known(wire[p])
      <3>1. PICK m \in made : wire[p].key # NoKey /\ m.key = wire[p].key
        BY <2>2 DEF Known
      <3>2. wire[p].key = p /\ RequestTrue(m)
        BY <1>1, <3>1 DEF RequestTrue, WireTrue, ClientsInv, PostsTrue, RequestsTrue
      <3> QED
        BY <3>1, <3>2 DEF PostsOf, RequestTrue
    <2> QED
      BY <1>6, <2>1, <2>2
  <1>7. ASSUME wire[p] \notin made PROVE \A m \in PostsOf(p) : m.attempt # old.attempt
    BY <1>1, <1>7 DEF PostsOf, WireTrue, ClientsInv, PostsTrue, RequestsTrue, old
  <1>8. /\ new.step = "succeeded" => \E m \in PostsOf(p) : m.attempt = new.attempt \/ m.key = p
        /\ new.step = "failed" /\ ~Retryable(new.error) =>
               \/ \A m \in PostsOf(p) : m.attempt # new.attempt
               \/ client = "telegram" /\ new.error = "publication_failed"
    <2>1. CASE wire[p] \in made \/ Known(wire[p])
      BY <2>1, <1>4, <1>6
    <2>2. CASE ~(wire[p] \in made \/ Known(wire[p]))
      BY <2>2, <1>4, <1>7
    <2> QED
      BY <2>1, <2>2
  <1>9. /\ new.step \in DeliverySteps \ {"new"} /\ new.step # "waiting"
        /\ new.step = "ready" => new.token.tenant = AccountOf[p]
    BY <1>3, <1>4 DEF DeliverySteps
  <1> QED
    BY <1>2, <1>4, <1>5, <1>8, <1>9, OneDelivery DEF old

LEMMA ClientsStep == ClientsInv /\ [ClientsNext]_clientVars => ClientsInv'
  <1> SUFFICES ASSUME ClientsInv, [ClientsNext]_clientVars PROVE ClientsInv'
    OBVIOUS
  <1>1. CASE UNCHANGED clientVars
    BY <1>1, NothingSent DEF clientVars
  <1>2. ASSUME NEW t \in Accounts,
               \/ \E i \in TokenIds : SaveToken(t, i)
               \/ \E verdict \in {"active", "paused"} : UpdatePlatform(t, verdict)
               \/ \E http \in {"keyed", "plain", "broken"} : UpsertHTTP(t, http)
        PROVE  ClientsInv'
    BY <1>2, NothingSent DEF SaveToken, UpdatePlatform, UpsertHTTP
  <1>3. ASSUME NEW p \in Publications, AnswerArrives(p) PROVE ClientsInv'
    <2>1. PICK a \in Answers(p) : Conclude(p, VerdictOf(a))
      BY <1>3 DEF AnswerArrives
    <2> DEFINE verdict == VerdictOf(a)
    <2>2. /\ wire[p] \in made \/ Known(wire[p]) =>
                 \/ verdict = "posted" \/ Retryable(verdict)
                 \/ client = "telegram" /\ verdict = "publication_failed"
          /\ verdict = "posted" => wire[p] \in made \/ Known(wire[p])
      BY AnswerRead
    <2> HIDE DEF verdict
    <2>3. Conclude(p, verdict)
      BY <2>1 DEF verdict
    <2> QED
      BY <1>3, <2>2, <2>3, ConcludeStep DEF AnswerArrives
  <1>4. ASSUME NEW p \in Publications, LoseAnswer(p) PROVE ClientsInv'
    <2>1. PICK verdict \in {"platform_timeout", "platform_unavailable"} : Conclude(p, verdict)
      BY <1>4 DEF LoseAnswer
    <2>2. Retryable(verdict) /\ verdict # "posted"
      BY <2>1 DEF Retryable
    <2> QED
      BY <1>4, <2>1, <2>2, ConcludeStep DEF LoseAnswer
  <1> QED
    BY <1>1, <1>2, <1>3, <1>4, BeginStep, SendStep, CarryOutStep DEF ClientsNext

LEMMA ClientsFollow == ClientsInv => ClientsAreExact
  <1> SUFFICES ASSUME ClientsInv PROVE ClientsAreExact
    OBVIOUS
  <1>1. ASSUME NEW p \in Publications,
               client = "dzen" \/ (client = "http" /\ \A r \in requests : r.publication = p => r.key = p)
        PROVE  Cardinality(PostsOf(p)) <= 1
    <2>1. \A m \in PostsOf(p) : m \in made /\ m.key = p /\ m.key # NoKey
      BY <1>1, ClientsAssumption DEF PostsOf, ClientsInv, PostsTrue, RequestsTrue, RequestTrue
    <2>2. \A m, n \in PostsOf(p) : m = n
      BY <2>1 DEF ClientsInv, PostsTrue
    <2>3. CASE PostsOf(p) = {}
      BY <2>3, FS_EmptySet
    <2>4. CASE PostsOf(p) # {}
      <3>1. PICK m : PostsOf(p) = {m}
        BY <2>2, <2>4
      <3> QED
        BY <3>1, FS_Singleton
    <2> QED
      BY <2>3, <2>4
  <1>2. RepeatsAreHarmless
    BY <1>1 DEF RepeatsAreHarmless, ClientsInv, RequestsTrue, RequestTrue
  <1> QED
    BY <1>2 DEF ClientsAreExact, ClientsInv

\* Every publisher reads an answer for what the platform did, and repeats only what
\* may be repeated, for any publications, accounts, tokens and attempts (publish,
\* _raise_for_..._error, _config_for, require_token).
THEOREM ClientsExact == ClientsSpec => []ClientsAreExact
  <1> QED
    BY ClientsInitially, ClientsStep, ClientsFollow, PTL DEF ClientsSpec
==============================================================================
