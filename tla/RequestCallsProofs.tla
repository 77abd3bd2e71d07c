---- MODULE RequestCallsProofs -------------------------
(***************************************************************************)
(* What cancellation reaches, for any number of threads, requests and      *)
(* operations: a frame preparation is interrupted exactly when it is       *)
(* superseded, and an accepted cancellation of a similarity operation is   *)
(* never lost.                                                             *)
(***************************************************************************)
EXTENDS RequestCalls, TLAPS

Entries == [generation : Nat, work : Nat]

\* No thread and no entry of the registry is None.
LEMMA NoneApart == None \notin PrepareThreads /\ None \notin Entries
BY NoneIsApart DEF Entries

Busy(t) == pc[t] \in {"handle", "lock", "start", "present", "open", "decode", "shown", "drop"}
InSession(t) == pc[t] \in {"start", "present", "open", "decode", "shown"}

\* The entry of the registry is that of t's request.
Current(t) == active # None /\ active.generation = mine[t]

PrepTypeOK ==
  /\ generation \in Nat
  /\ cancelled \subseteq 1 .. generation /\ superseded \subseteq 1 .. generation
  /\ active # None => /\ active \in Entries
                      /\ active.generation \in 1 .. generation
                      /\ active.work \in 1 .. generation
  /\ cursor = None \/ cursor \in 1 .. generation
  /\ pc \in [PrepareThreads -> Prepare!Steps] /\ mine \in [PrepareThreads -> Nat] /\ using \in [PrepareThreads -> Nat]
  /\ opens \in [PrepareThreads -> Nat] /\ result \in [PrepareThreads -> {"none", "cancelled", "not_found", "failed", "ok"}]
  /\ \A t \in PrepareThreads : Busy(t) => mine[t] \in 1 .. generation
  /\ \A t \in PrepareThreads : pc[t] = "decode" => using[t] \in 1 .. generation

\* A token of the decoder that t drives, or is about to drive: it interrupts
\* t's request, and only t's request.
Interrupts(t, token) ==
  /\ mine[t] \notin superseded => active # None /\ active.work = token /\ token \notin cancelled
  /\ mine[t] \in superseded => token \in cancelled

(***************************************************************************)
(* A request is current until it is superseded; what is superseded is      *)
(* cancelled; the session mutex excludes; and the decoder of a thread      *)
(* polls the token the registry would cancel.                              *)
(***************************************************************************)
PrepInv ==
  /\ PrepTypeOK
  /\ superseded \subseteq cancelled
  /\ \A t \in PrepareThreads : InSession(t) <=> owner = t
  /\ \A t, u \in PrepareThreads : Busy(t) /\ Busy(u) /\ mine[t] = mine[u] => t = u
  /\ \A t \in PrepareThreads : Busy(t) /\ mine[t] \notin superseded =>
       Current(t) /\ mine[t] \notin cancelled
  /\ \A t \in PrepareThreads : pc[t] = "present" /\ cursor # None => Interrupts(t, cursor)
  /\ \A t \in PrepareThreads : pc[t] = "decode" => Interrupts(t, using[t])
  /\ \A t \in PrepareThreads : result[t] = "cancelled" => pc[t] = "drop" /\ mine[t] \in superseded

-----------------------------------------------------------------------------
(***************************************************************************)
(* A later call supersedes and cancels the current request: afterwards no  *)
(* request that was under way is current.                                  *)
(***************************************************************************)
LEMMA SupersedeFacts ==
  ASSUME PrepInv,
         cancelled' = cancelled \cup Prepare!ActiveTokens, superseded' = superseded \cup Prepare!ActiveRequest
  PROVE  /\ cancelled' \subseteq 1 .. generation /\ superseded' \subseteq cancelled'
         /\ \A t \in PrepareThreads : Busy(t) => mine[t] \in superseded'
         /\ \A t \in PrepareThreads : pc[t] = "decode" => using[t] \in cancelled'
         /\ \A t \in PrepareThreads : pc[t] = "present" /\ cursor # None => cursor \in cancelled'
<1>1. cancelled' \subseteq 1 .. generation /\ superseded' \subseteq cancelled'
  BY DEF PrepInv, PrepTypeOK, Prepare!ActiveTokens, Prepare!ActiveRequest
<1>2. \A t \in PrepareThreads : Busy(t) => mine[t] \in superseded'
  BY DEF PrepInv, Current, Prepare!ActiveRequest
<1>3. \A t \in PrepareThreads : pc[t] = "decode" => using[t] \in cancelled'
  BY DEF PrepInv, Interrupts, Prepare!ActiveTokens
<1>4. \A t \in PrepareThreads : pc[t] = "present" /\ cursor # None => cursor \in cancelled'
  BY DEF PrepInv, Interrupts, Prepare!ActiveTokens
<1> QED BY <1>1, <1>2, <1>3, <1>4

LEMMA BeginKeeps ==
  ASSUME PrepInv, NEW t \in PrepareThreads, Prepare!BeginFramePreparation(t)
  PROVE  PrepInv'
<1> DEFINE g == generation + 1
<1>1. /\ pc[t] = "idle" /\ generation' = g /\ active' = [generation |-> g, work |-> g]
      /\ cancelled' = cancelled \cup Prepare!ActiveTokens /\ superseded' = superseded \cup Prepare!ActiveRequest
      /\ mine' = [mine EXCEPT ![t] = g] /\ pc' = [pc EXCEPT ![t] = "handle"]
      /\ cursor' = cursor /\ owner' = owner /\ using' = using /\ opens' = opens /\ result' = result
  BY DEF Prepare!BeginFramePreparation
<1>2. /\ generation \in Nat /\ g \in Nat /\ g \notin 1 .. generation
      /\ pc \in [PrepareThreads -> Prepare!Steps] /\ mine \in [PrepareThreads -> Nat]
  BY DEF PrepInv, PrepTypeOK
<1>3. /\ cancelled' \subseteq 1 .. generation /\ superseded' \subseteq cancelled'
      /\ \A u \in PrepareThreads : Busy(u) => mine[u] \in superseded'
      /\ \A u \in PrepareThreads : pc[u] = "decode" => using[u] \in cancelled'
      /\ \A u \in PrepareThreads : pc[u] = "present" /\ cursor # None => cursor \in cancelled'
  BY <1>1, SupersedeFacts
<1>4. active' # None /\ active'.generation = g /\ active'.work = g /\ active' \in Entries
  BY <1>1, <1>2, NoneApart DEF Entries
<1>5. /\ pc'[t] = "handle" /\ mine'[t] = g
      /\ \A u \in PrepareThreads : u # t => pc'[u] = pc[u] /\ mine'[u] = mine[u]
  BY <1>1, <1>2
<1>6. PrepTypeOK'
  <2>1. pc' \in [PrepareThreads -> Prepare!Steps] /\ mine' \in [PrepareThreads -> Nat]
    BY <1>1, <1>2 DEF Prepare!Steps
  <2>2. \A u \in PrepareThreads : Busy(u)' => mine'[u] \in 1 .. g
    BY <1>2, <1>5 DEF PrepInv, PrepTypeOK, Busy
  <2>3. \A u \in PrepareThreads : pc'[u] = "decode" => using[u] \in 1 .. g
    BY <1>2, <1>5 DEF PrepInv, PrepTypeOK
  <2>4. cancelled' \subseteq 1 .. g /\ superseded' \subseteq 1 .. g
    BY <1>2, <1>3
  <2>5. cursor = None \/ cursor \in 1 .. g
    BY <1>2 DEF PrepInv, PrepTypeOK
  <2>6. g \in 1 .. g
    BY <1>2
  <2> HIDE DEF g
  <2> QED BY <1>1, <1>2, <1>4, <2>1, <2>2, <2>3, <2>4, <2>5, <2>6 DEF PrepInv, PrepTypeOK
<1>7. \A u \in PrepareThreads : InSession(u)' <=> owner' = u
  BY <1>1, <1>5 DEF PrepInv, InSession
<1>8. \A u, v \in PrepareThreads : Busy(u)' /\ Busy(v)' /\ mine'[u] = mine'[v] => u = v
  <2>1. \A u \in PrepareThreads : u # t /\ Busy(u)' => mine'[u] # g /\ Busy(u)
    BY <1>2, <1>5 DEF PrepInv, PrepTypeOK, Busy
  <2> QED BY <1>5, <2>1 DEF PrepInv
<1>9. \A u \in PrepareThreads : Busy(u)' /\ mine'[u] \notin superseded' => Current(u)' /\ mine'[u] \notin cancelled'
  <2>1. \A u \in PrepareThreads : u # t /\ Busy(u)' => mine'[u] \in superseded'
    BY <1>3, <1>5 DEF Busy
  <2>2. Current(t)' /\ mine'[t] \notin cancelled'
    BY <1>2, <1>3, <1>4, <1>5 DEF Current
  <2> QED BY <2>1, <2>2
<1>10. \A u \in PrepareThreads : pc'[u] \in {"present", "decode"} => mine'[u] \in superseded' /\ pc'[u] = pc[u]
  BY <1>3, <1>5 DEF Busy
<1>11. \A u \in PrepareThreads : pc'[u] = "present" /\ cursor' # None => Interrupts(u, cursor)'
  BY <1>1, <1>3, <1>10 DEF Interrupts
<1>12. \A u \in PrepareThreads : pc'[u] = "decode" => Interrupts(u, using[u])'
  BY <1>1, <1>3, <1>10 DEF Interrupts
<1>13. \A u \in PrepareThreads : result'[u] = "cancelled" => pc'[u] = "drop" /\ mine'[u] \in superseded'
  BY <1>1, <1>5 DEF PrepInv
<1> QED BY <1>3, <1>6, <1>7, <1>8, <1>9, <1>11, <1>12, <1>13 DEF PrepInv

LEMMA CancelKeeps ==
  ASSUME PrepInv, NEW t \in PrepareThreads, NEW step \in {"nav_handle", "close"},
         Prepare!CancelActiveFramePreparation(t, step)
  PROVE  PrepInv'
<1>1. /\ pc[t] = "idle" /\ generation' = generation /\ active' = active
      /\ cancelled' = cancelled \cup Prepare!ActiveTokens /\ superseded' = superseded \cup Prepare!ActiveRequest
      /\ mine' = mine /\ pc' = [pc EXCEPT ![t] = step]
      /\ cursor' = cursor /\ owner' = owner /\ using' = using /\ opens' = opens /\ result' = result
  BY DEF Prepare!CancelActiveFramePreparation
<1>2. pc \in [PrepareThreads -> Prepare!Steps]
  BY DEF PrepInv, PrepTypeOK
<1>3. /\ cancelled' \subseteq 1 .. generation /\ superseded' \subseteq cancelled'
      /\ \A u \in PrepareThreads : Busy(u) => mine[u] \in superseded'
      /\ \A u \in PrepareThreads : pc[u] = "decode" => using[u] \in cancelled'
      /\ \A u \in PrepareThreads : pc[u] = "present" /\ cursor # None => cursor \in cancelled'
  BY <1>1, SupersedeFacts
<1>4. /\ pc' \in [PrepareThreads -> Prepare!Steps] /\ pc'[t] = step
      /\ \A u \in PrepareThreads : u # t => pc'[u] = pc[u]
  BY <1>1, <1>2 DEF Prepare!Steps
<1>5. \A u \in PrepareThreads : (Busy(u)' => Busy(u)) /\ (InSession(u)' <=> InSession(u))
  BY <1>1, <1>4 DEF Busy, InSession
<1>6. PrepTypeOK'
  BY <1>1, <1>3, <1>4, <1>5 DEF PrepInv, PrepTypeOK
<1>7. \A u \in PrepareThreads : pc'[u] \in {"present", "decode"} => mine'[u] \in superseded' /\ pc'[u] = pc[u]
  BY <1>1, <1>3, <1>4 DEF Busy
<1>8. \A u \in PrepareThreads : pc'[u] = "present" /\ cursor' # None => Interrupts(u, cursor)'
  BY <1>1, <1>3, <1>7 DEF Interrupts
<1>9. \A u \in PrepareThreads : pc'[u] = "decode" => Interrupts(u, using[u])'
  BY <1>1, <1>3, <1>7 DEF Interrupts
<1>10. \A u \in PrepareThreads : result'[u] = "cancelled" => pc'[u] = "drop" /\ mine'[u] \in superseded'
  BY <1>1, <1>4 DEF PrepInv
<1>11. \A u \in PrepareThreads : Busy(u)' => mine'[u] \in superseded'
  BY <1>1, <1>3, <1>5
<1> QED BY <1>1, <1>3, <1>5, <1>6, <1>8, <1>9, <1>10, <1>11 DEF PrepInv

-----------------------------------------------------------------------------
(***************************************************************************)
(* A step of one thread that leaves the registry's history alone: what is  *)
(* to be shown about the other threads, and about the thread itself.       *)
(***************************************************************************)
Quiet ==
  /\ generation' = generation /\ cancelled' = cancelled /\ superseded' = superseded

Others(t) ==
  \A u \in PrepareThreads : u # t => /\ pc'[u] = pc[u] /\ mine'[u] = mine[u] /\ using'[u] = using[u]
                              /\ opens'[u] = opens[u] /\ result'[u] = result[u]

\* The session and the entry are changed only by the thread they belong to.
TouchesOwn(t) ==
  /\ owner' = owner \/ (owner \in {t, None} /\ owner' \in {t, None})
  /\ cursor' = cursor \/ InSession(t)
  /\ active' = active \/ (Busy(t) /\ Current(t))

LEMMA QuietKeeps ==
  ASSUME PrepInv, NEW t \in PrepareThreads, Quiet, Others(t), TouchesOwn(t), PrepTypeOK',
         InSession(t)' <=> owner' = t,
         Busy(t)' => Busy(t) /\ mine'[t] = mine[t],
         Busy(t)' /\ mine[t] \notin superseded => Current(t)',
         pc'[t] = "present" /\ cursor' # None => Interrupts(t, cursor)',
         pc'[t] = "decode" => Interrupts(t, using[t])',
         result'[t] = "cancelled" => pc'[t] = "drop" /\ mine'[t] \in superseded
  PROVE  PrepInv'
<1>1. \A u \in PrepareThreads : Busy(u)' => Busy(u) /\ mine'[u] = mine[u]
  BY DEF Others, Busy
<1>2. \A u, v \in PrepareThreads : Busy(u)' /\ Busy(v)' /\ mine'[u] = mine'[v] => u = v
  BY <1>1 DEF PrepInv
<1>3. \A u \in PrepareThreads : InSession(u)' <=> owner' = u
  BY NoneApart DEF PrepInv, Others, InSession, TouchesOwn
<1>4. superseded' \subseteq cancelled'
  BY DEF PrepInv, Quiet
<1>5. ASSUME NEW u \in PrepareThreads, u # t, Busy(u), mine[u] \notin superseded
      PROVE  active' = active
  <2>1. Current(u) /\ (Busy(t) => mine[u] # mine[t])
    BY <1>5 DEF PrepInv
  <2> QED BY <2>1 DEF TouchesOwn, Current
<1>6. \A u \in PrepareThreads : Busy(u)' /\ mine'[u] \notin superseded' => Current(u)' /\ mine'[u] \notin cancelled'
  <2> SUFFICES ASSUME NEW u \in PrepareThreads, Busy(u)', mine'[u] \notin superseded'
               PROVE  Current(u)' /\ mine'[u] \notin cancelled'
    OBVIOUS
  <2>1. Busy(u) /\ mine'[u] = mine[u] /\ mine[u] \notin superseded /\ mine'[u] \notin cancelled' /\ Current(u)
    BY <1>1 DEF PrepInv, Quiet
  <2>2. CASE u = t
    BY <2>1, <2>2
  <2>3. CASE u # t
    <3>1. active' = active
      BY <1>5, <2>1, <2>3
    <3> QED BY <2>1, <3>1 DEF Current
  <2> QED BY <2>2, <2>3
<1>7. ASSUME NEW u \in PrepareThreads, u # t, pc'[u] \in {"present", "decode"}
      PROVE  /\ pc'[u] = pc[u] /\ mine'[u] = mine[u] /\ using'[u] = using[u]
             /\ cursor' = cursor /\ (mine[u] \notin superseded => active' = active)
  <2>1. pc'[u] = pc[u] /\ mine'[u] = mine[u] /\ using'[u] = using[u] /\ Busy(u) /\ InSession(u)
    BY <1>7 DEF Others, Busy, InSession
  <2>2. owner = u /\ ~InSession(t)
    BY <1>7, <2>1 DEF PrepInv
  <2>3. cursor' = cursor
    BY <2>2 DEF TouchesOwn
  <2>4. mine[u] \notin superseded => active' = active
    BY <1>5, <1>7, <2>1
  <2> QED BY <2>1, <2>3, <2>4
<1>8. \A u \in PrepareThreads : pc'[u] = "present" /\ cursor' # None => Interrupts(u, cursor)'
  <2> SUFFICES ASSUME NEW u \in PrepareThreads, u # t, pc'[u] = "present", cursor' # None
               PROVE  Interrupts(u, cursor)'
    OBVIOUS
  <2>1. Interrupts(u, cursor)
    BY <1>7 DEF PrepInv
  <2> QED BY <1>7, <2>1 DEF Interrupts, Quiet
<1>9. \A u \in PrepareThreads : pc'[u] = "decode" => Interrupts(u, using[u])'
  <2> SUFFICES ASSUME NEW u \in PrepareThreads, u # t, pc'[u] = "decode"
               PROVE  Interrupts(u, using[u])'
    OBVIOUS
  <2>1. Interrupts(u, using[u])
    BY <1>7 DEF PrepInv
  <2> QED BY <1>7, <2>1 DEF Interrupts, Quiet
<1>10. \A u \in PrepareThreads : result'[u] = "cancelled" => pc'[u] = "drop" /\ mine'[u] \in superseded'
  BY DEF PrepInv, Others, Quiet
<1> QED BY <1>2, <1>3, <1>4, <1>6, <1>8, <1>9, <1>10 DEF PrepInv

-----------------------------------------------------------------------------
\* What the two ways of ending a step do.
LEMMA GotoFacts ==
  ASSUME PrepInv, NEW t \in PrepareThreads, NEW step \in Prepare!Steps, Prepare!Goto(t, step)
  PROVE  /\ pc' \in [PrepareThreads -> Prepare!Steps] /\ pc'[t] = step
         /\ \A u \in PrepareThreads : u # t => pc'[u] = pc[u]
BY DEF PrepInv, PrepTypeOK, Prepare!Goto

LEMMA AnswerFacts ==
  ASSUME PrepInv, NEW t \in PrepareThreads, NEW a \in {"cancelled", "not_found", "failed", "ok"}, Prepare!Answer(t, a)
  PROVE  /\ pc' \in [PrepareThreads -> Prepare!Steps] /\ pc'[t] = "drop"
         /\ result' \in [PrepareThreads -> {"none", "cancelled", "not_found", "failed", "ok"}]
         /\ result'[t] = a
         /\ \A u \in PrepareThreads : u # t => pc'[u] = pc[u] /\ result'[u] = result[u]
         /\ owner' = IF owner = t THEN None ELSE owner
         /\ ~InSession(t)'
BY DEF PrepInv, PrepTypeOK, Prepare!Answer, Prepare!Steps, InSession

\* Types depend on the thread that moved only through its own locals.
LEMMA QuietType ==
  ASSUME PrepInv, NEW t \in PrepareThreads, Quiet, Others(t),
         active' # None => /\ active' \in Entries
                           /\ active'.generation \in 1 .. generation /\ active'.work \in 1 .. generation,
         cursor' = None \/ cursor' \in 1 .. generation,
         pc' \in [PrepareThreads -> Prepare!Steps], mine' \in [PrepareThreads -> Nat], using' \in [PrepareThreads -> Nat],
         opens' \in [PrepareThreads -> Nat],
         result' \in [PrepareThreads -> {"none", "cancelled", "not_found", "failed", "ok"}],
         Busy(t)' => mine'[t] \in 1 .. generation,
         pc'[t] = "decode" => using'[t] \in 1 .. generation
  PROVE  PrepTypeOK'
<1>1. \A u \in PrepareThreads : Busy(u)' => mine'[u] \in 1 .. generation'
  BY DEF PrepInv, PrepTypeOK, Others, Quiet, Busy
<1>2. \A u \in PrepareThreads : pc'[u] = "decode" => using'[u] \in 1 .. generation'
  BY DEF PrepInv, PrepTypeOK, Others, Quiet
<1> QED BY <1>1, <1>2 DEF PrepInv, PrepTypeOK, Quiet

(***************************************************************************)
(* An answer, or a move outside the decoder, that leaves the locals of the *)
(* request and the registry alone.                                         *)
(***************************************************************************)
LEMMA PlainKeeps ==
  ASSUME PrepInv, NEW t \in PrepareThreads, Busy(t) \/ ~Busy(t)', Quiet, active' = active,
         mine' = mine, using' = using, opens' = opens,
         cursor' = cursor \/ (InSession(t) /\ cursor' = None),
         pc' \in [PrepareThreads -> Prepare!Steps], \A u \in PrepareThreads : u # t => pc'[u] = pc[u],
         result' \in [PrepareThreads -> {"none", "cancelled", "not_found", "failed", "ok"}],
         \A u \in PrepareThreads : u # t => result'[u] = result[u],
         owner' = owner \/ (owner \in {t, None} /\ owner' \in {t, None}),
         InSession(t)' <=> owner' = t, pc'[t] # "decode",
         pc'[t] = "present" => cursor' = None,
         result'[t] = "cancelled" => pc'[t] = "drop" /\ mine[t] \in superseded
  PROVE  PrepInv'
<1>1. Others(t) /\ TouchesOwn(t)
  <2>1. Others(t)
    BY DEF Others
  <2>2. TouchesOwn(t)
    BY DEF TouchesOwn
  <2> QED BY <2>1, <2>2
<1>2. Busy(t)' => Busy(t) /\ mine'[t] = mine[t]
  OBVIOUS
<1>3. PrepTypeOK'
  BY <1>1, <1>2, QuietType DEF PrepInv, PrepTypeOK
<1>4. Busy(t)' /\ mine[t] \notin superseded => Current(t)'
  BY <1>2 DEF PrepInv, Current
<1> QED BY <1>1, <1>2, <1>3, <1>4, QuietKeeps

LEMMA GetHandleKeeps ==
  ASSUME PrepInv, NEW t \in PrepareThreads, Prepare!GetHandle(t)
  PROVE  PrepInv'
<1>1. /\ pc[t] = "handle" /\ active' = active /\ Quiet /\ cursor' = cursor
      /\ mine' = mine /\ using' = using /\ opens' = opens
  BY DEF Prepare!GetHandle, Quiet
<1>2. Busy(t) /\ (result[t] # "cancelled")
  BY <1>1 DEF Busy, PrepInv
<1>3. mine[t] \in cancelled => mine[t] \in superseded
  BY <1>2 DEF PrepInv
<1>4. CASE mine[t] \in cancelled /\ Prepare!Answer(t, "cancelled")
  BY <1>1, <1>2, <1>3, <1>4, AnswerFacts, PlainKeeps, NoneApart
<1>5. CASE Prepare!Answer(t, "not_found")
  BY <1>1, <1>2, <1>5, AnswerFacts, PlainKeeps, NoneApart
<1>6. CASE Prepare!Goto(t, "lock") /\ owner' = owner /\ result' = result
  BY <1>1, <1>2, <1>6, GotoFacts, PlainKeeps DEF InSession, Prepare!Steps, PrepInv, PrepTypeOK
<1> QED BY <1>4, <1>5, <1>6 DEF Prepare!GetHandle, Prepare!IsCancelled

LEMMA LockKeeps ==
  ASSUME PrepInv, NEW t \in PrepareThreads, Prepare!Lock(t)
  PROVE  PrepInv'
<1>1. /\ pc[t] = "lock" /\ owner = None /\ owner' = t /\ Prepare!Goto(t, "start")
      /\ active' = active /\ Quiet /\ cursor' = cursor
      /\ mine' = mine /\ using' = using /\ opens' = opens /\ result' = result
  BY DEF Prepare!Lock, Quiet
<1>2. Busy(t) /\ result[t] # "cancelled"
  BY <1>1 DEF Busy, PrepInv
<1> QED
  BY <1>1, <1>2, GotoFacts, PlainKeeps DEF InSession, Prepare!Steps, PrepInv, PrepTypeOK

\* The entry of t's request, with the token that t's decoder is to poll.
LEMMA AdoptKeeps ==
  ASSUME PrepInv, NEW t \in PrepareThreads, NEW token \in 1 .. generation,
         InSession(t), Prepare!MayAdopt(t, token), Prepare!Adopt(token), Quiet,
         mine' = mine, owner' = owner, result' = result,
         cursor' = cursor,
         using' \in [PrepareThreads -> Nat], opens' \in [PrepareThreads -> Nat],
         \A u \in PrepareThreads : u # t => using'[u] = using[u] /\ opens'[u] = opens[u],
         pc' \in [PrepareThreads -> Prepare!Steps], \A u \in PrepareThreads : u # t => pc'[u] = pc[u],
         \/ pc'[t] = "present" /\ cursor = token
         \/ pc'[t] = "decode" /\ using'[t] = token
  PROVE  PrepInv'
<1>1. Current(t) /\ mine[t] \notin cancelled /\ token \notin cancelled /\ mine[t] \notin superseded
  BY DEF Prepare!MayAdopt, Prepare!IsCancelled, Current, PrepInv
<1>2. /\ active # None /\ active \in Entries
      /\ active.generation \in 1 .. generation /\ generation \in Nat
  BY <1>1 DEF Current, PrepInv, PrepTypeOK
<1>3. active' = [active EXCEPT !.work = token]
  BY DEF Prepare!Adopt
<1>4. /\ active' \in Entries /\ active'.generation = active.generation /\ active'.work = token
  BY <1>2, <1>3 DEF Entries
<1>5. active' # None
  BY <1>4, NoneApart
<1>6. Others(t)
  BY DEF Others
<1>7. Busy(t)
  BY DEF Busy, InSession
<1>8. TouchesOwn(t)
  BY <1>1, <1>7 DEF TouchesOwn
<1>9. PrepTypeOK'
  BY <1>2, <1>4, <1>6, <1>7, QuietType DEF PrepInv, PrepTypeOK
<1>10. Interrupts(t, token)'
  <2>1. active' # None /\ active'.work = token /\ token \notin cancelled'
    BY <1>1, <1>4, <1>5 DEF Quiet
  <2>2. mine'[t] \notin superseded'
    BY <1>1 DEF Quiet
  <2> QED BY <2>1, <2>2 DEF Interrupts
<1>11. Current(t)'
  BY <1>1, <1>4, <1>5 DEF Current
<1>12. InSession(t)' <=> owner' = t
  BY DEF InSession, PrepInv
<1>13. pc'[t] = "present" /\ cursor' # None => Interrupts(t, cursor)'
  BY <1>10 DEF Interrupts
<1>14. pc'[t] = "decode" => Interrupts(t, using[t])'
  BY <1>10 DEF Interrupts
<1>15. result'[t] # "cancelled"
  BY DEF PrepInv, InSession
<1> QED
  BY <1>6, <1>7, <1>8, <1>9, <1>11, <1>12, <1>13, <1>14, <1>15, QuietKeeps

LEMMA StartKeeps ==
  ASSUME PrepInv, NEW t \in PrepareThreads, Prepare!Start(t)
  PROVE  PrepInv'
<1>1. pc[t] = "start" /\ Quiet /\ mine' = mine /\ using' = using /\ opens' = opens
  BY DEF Prepare!Start, Quiet
<1>2. Busy(t) /\ InSession(t) /\ owner = t /\ result[t] # "cancelled"
  BY <1>1 DEF Busy, InSession, PrepInv
<1>3. /\ mine[t] \in cancelled => mine[t] \in superseded
      /\ mine[t] \notin cancelled => Current(t) /\ mine[t] \notin superseded
  BY <1>2 DEF PrepInv
<1>4. CASE mine[t] \in cancelled /\ Prepare!Answer(t, "cancelled") /\ active' = active /\ cursor' = cursor
  BY <1>1, <1>2, <1>3, <1>4, AnswerFacts, PlainKeeps, NoneApart
<1>5. CASE cursor' = None /\ Prepare!Goto(t, "present") /\ active' = active /\ owner' = owner /\ result' = result
  BY <1>1, <1>2, <1>5, GotoFacts, PlainKeeps DEF InSession, Prepare!Steps, PrepInv, PrepTypeOK
<1>6. CASE /\ cursor # None /\ Prepare!MayAdopt(t, cursor) /\ Prepare!Adopt(cursor) /\ Prepare!Goto(t, "present")
           /\ cursor' = cursor /\ owner' = owner /\ result' = result
  <2>1. cursor \in 1 .. generation
    BY <1>6 DEF PrepInv, PrepTypeOK
  <2> QED
    BY <1>1, <1>2, <1>6, <2>1, GotoFacts, AdoptKeeps DEF Prepare!Steps, PrepInv, PrepTypeOK
<1>7. CASE mine[t] \notin cancelled /\ cursor \notin cancelled /\ ~Prepare!MayAdopt(t, cursor)
  BY <1>3, <1>7 DEF Prepare!MayAdopt, Prepare!IsCancelled, Current
<1> QED BY <1>4, <1>5, <1>6, <1>7 DEF Prepare!Start, Prepare!IsCancelled

LEMMA PresentKeeps ==
  ASSUME PrepInv, NEW t \in PrepareThreads, Prepare!Present(t)
  PROVE  PrepInv'
<1>1. /\ pc[t] = "present" /\ Quiet /\ active' = active /\ mine' = mine /\ opens' = opens
      /\ owner' = owner /\ result' = result
  BY DEF Prepare!Present, Quiet
<1>2. Busy(t) /\ InSession(t) /\ owner = t /\ result[t] # "cancelled"
  BY <1>1 DEF Busy, InSession, PrepInv
<1>3. CASE cursor # None /\ using' = [using EXCEPT ![t] = cursor] /\ Prepare!Goto(t, "decode") /\ cursor' = cursor
  <2>1. cursor \in 1 .. generation /\ generation \in Nat /\ Interrupts(t, cursor)
    BY <1>1, <1>3 DEF PrepInv, PrepTypeOK
  <2>2. /\ using' \in [PrepareThreads -> Nat] /\ using'[t] = cursor
        /\ \A u \in PrepareThreads : u # t => using'[u] = using[u]
    <3>1. using \in [PrepareThreads -> Nat]
      BY Zenon DEF PrepInv, PrepTypeOK
    <3>2. cursor \in Nat /\ using' = [using EXCEPT ![t] = cursor]
      BY <1>3, <2>1
    <3> QED BY <3>1, <3>2, Zenon
  <2>3. /\ pc' \in [PrepareThreads -> Prepare!Steps] /\ pc'[t] = "decode"
        /\ \A u \in PrepareThreads : u # t => pc'[u] = pc[u]
    BY <1>3, GotoFacts DEF Prepare!Steps
  <2>4. Others(t)
    BY <1>1, <2>2, <2>3 DEF Others
  <2>5. TouchesOwn(t)
    BY <1>1, <1>3 DEF TouchesOwn
  <2>6. PrepTypeOK'
    BY <1>1, <1>2, <1>3, <2>1, <2>2, <2>3, <2>4, QuietType DEF PrepInv, PrepTypeOK
  <2>7. Interrupts(t, using[t])'
    BY <1>1, <2>1, <2>2 DEF Interrupts, Quiet
  <2>8. Busy(t)' /\ mine[t] \notin superseded => Current(t)'
    BY <1>1, <1>2 DEF PrepInv, Current
  <2>9. InSession(t)' <=> owner' = t
    BY <1>1, <1>2, <2>3 DEF InSession
  <2> QED
    BY <1>1, <1>2, <2>3, <2>4, <2>5, <2>6, <2>7, <2>8, <2>9, QuietKeeps
<1>4. CASE cursor' \in {cursor, None} /\ Prepare!Goto(t, "shown") /\ using' = using
  BY <1>1, <1>2, <1>4, GotoFacts, PlainKeeps DEF InSession, Prepare!Steps, PrepInv, PrepTypeOK
<1>5. CASE cursor' = None /\ Prepare!Goto(t, "open") /\ using' = using
  BY <1>1, <1>2, <1>5, GotoFacts, PlainKeeps DEF InSession, Prepare!Steps, PrepInv, PrepTypeOK
<1> QED BY <1>3, <1>4, <1>5 DEF Prepare!Present

LEMMA OpenDecoderKeeps ==
  ASSUME PrepInv, NEW t \in PrepareThreads, Prepare!OpenDecoder(t)
  PROVE  PrepInv'
<1>1. pc[t] = "open" /\ Quiet /\ mine' = mine /\ cursor' = cursor
  BY DEF Prepare!OpenDecoder, Quiet
<1>2. Busy(t) /\ InSession(t) /\ owner = t /\ result[t] # "cancelled" /\ mine[t] \in 1 .. generation
  BY <1>1 DEF Busy, InSession, PrepInv, PrepTypeOK
<1>3. CASE ~Prepare!MayAdopt(t, mine[t]) /\ Prepare!Answer(t, "cancelled") /\ active' = active /\ using' = using /\ opens' = opens
  <2>1. mine[t] \in superseded
    BY <1>2, <1>3 DEF Prepare!MayAdopt, Prepare!IsCancelled, PrepInv, Current
  <2> QED BY <1>1, <1>2, <1>3, <2>1, AnswerFacts, PlainKeeps, NoneApart
<1>4. CASE /\ Prepare!MayAdopt(t, mine[t]) /\ Prepare!Adopt(mine[t])
           /\ using' = [using EXCEPT ![t] = mine[t]] /\ opens' = [opens EXCEPT ![t] = @ + 1]
           /\ Prepare!Goto(t, "decode") /\ owner' = owner /\ result' = result
  <2>1. PICK token \in 1 .. generation : token = mine[t]
    BY <1>2
  <2>2. /\ using' \in [PrepareThreads -> Nat] /\ using'[t] = token
        /\ \A u \in PrepareThreads : u # t => using'[u] = using[u]
    <3>1. using \in [PrepareThreads -> Nat] /\ using' = [using EXCEPT ![t] = token]
      BY <1>4, <2>1 DEF PrepInv, PrepTypeOK
    <3> QED BY <3>1
  <2>3. /\ opens' \in [PrepareThreads -> Nat]
        /\ \A u \in PrepareThreads : u # t => opens'[u] = opens[u]
    <3>1. opens \in [PrepareThreads -> Nat] /\ opens' = [opens EXCEPT ![t] = @ + 1]
      BY <1>4 DEF PrepInv, PrepTypeOK
    <3> QED BY <3>1
  <2>4. Prepare!MayAdopt(t, token) /\ Prepare!Adopt(token)
    BY <1>4, <2>1
  <2>5. /\ pc' \in [PrepareThreads -> Prepare!Steps] /\ pc'[t] = "decode"
        /\ \A u \in PrepareThreads : u # t => pc'[u] = pc[u]
    BY <1>4, GotoFacts DEF Prepare!Steps
  <2> QED BY <1>1, <1>2, <1>4, <2>2, <2>3, <2>4, <2>5, AdoptKeeps
<1> QED BY <1>3, <1>4 DEF Prepare!OpenDecoder

LEMMA DecodeKeeps ==
  ASSUME PrepInv, NEW t \in PrepareThreads, Prepare!Decode(t)
  PROVE  PrepInv'
<1>1. /\ pc[t] = "decode" /\ Quiet /\ active' = active /\ mine' = mine
      /\ using' = using /\ opens' = opens
  BY DEF Prepare!Decode, Quiet
<1>2. Busy(t) /\ InSession(t) /\ owner = t /\ result[t] # "cancelled" /\ Interrupts(t, using[t])
  BY <1>1 DEF Busy, InSession, PrepInv
<1>3. CASE cursor' = using[t] /\ Prepare!Goto(t, "shown") /\ owner' = owner /\ result' = result
  <2>1. using[t] \in 1 .. generation
    BY <1>1 DEF PrepInv, PrepTypeOK
  <2>2. /\ pc' \in [PrepareThreads -> Prepare!Steps] /\ pc'[t] = "shown"
        /\ \A u \in PrepareThreads : u # t => pc'[u] = pc[u]
    BY <1>3, GotoFacts DEF Prepare!Steps
  <2>3. Others(t)
    BY <1>1, <1>3, <2>2 DEF Others
  <2>4. TouchesOwn(t)
    BY <1>1, <1>2, <1>3 DEF TouchesOwn
  <2>5. PrepTypeOK'
    BY <1>1, <1>2, <1>3, <2>1, <2>2, <2>3, QuietType DEF PrepInv, PrepTypeOK
  <2>6. Busy(t)' /\ mine[t] \notin superseded => Current(t)'
    BY <1>1, <1>2 DEF PrepInv, Current
  <2>7. InSession(t)' <=> owner' = t
    BY <1>2, <1>3, <2>2 DEF InSession
  <2> QED
    BY <1>1, <1>2, <1>3, <2>2, <2>3, <2>4, <2>5, <2>6, <2>7, QuietKeeps
<1>4. CASE using[t] \in cancelled /\ cursor' = None /\ Prepare!Answer(t, "cancelled")
  <2>1. mine[t] \in superseded
    BY <1>2, <1>4 DEF Interrupts
  <2> QED BY <1>1, <1>2, <1>4, <2>1, AnswerFacts, PlainKeeps, NoneApart
<1>5. CASE cursor' = None /\ Prepare!Answer(t, "failed")
  BY <1>1, <1>2, <1>5, AnswerFacts, PlainKeeps, NoneApart
<1>6. CASE cursor' = None /\ Prepare!Goto(t, "open") /\ owner' = owner /\ result' = result
  BY <1>1, <1>2, <1>6, GotoFacts, PlainKeeps DEF InSession, Prepare!Steps, PrepInv, PrepTypeOK
<1> QED BY <1>3, <1>4, <1>5, <1>6 DEF Prepare!Decode, Prepare!IsCancelled

LEMMA ShowKeeps ==
  ASSUME PrepInv, NEW t \in PrepareThreads, Prepare!Show(t)
  PROVE  PrepInv'
<1>1. /\ pc[t] = "shown" /\ Quiet /\ active' = active /\ mine' = mine
      /\ using' = using /\ opens' = opens
  BY DEF Prepare!Show, Quiet
<1>2. Busy(t) /\ InSession(t) /\ owner = t /\ result[t] # "cancelled"
  BY <1>1 DEF Busy, InSession, PrepInv
<1>3. CASE mine[t] \in cancelled /\ cursor' = None /\ Prepare!Answer(t, "cancelled")
  <2>1. mine[t] \in superseded
    BY <1>2, <1>3 DEF PrepInv
  <2> QED BY <1>1, <1>2, <1>3, <2>1, AnswerFacts, PlainKeeps, NoneApart
<1>4. CASE cursor' = cursor /\ Prepare!Answer(t, "ok")
  BY <1>1, <1>2, <1>4, AnswerFacts, PlainKeeps, NoneApart
<1> QED BY <1>3, <1>4 DEF Prepare!Show, Prepare!IsCancelled

LEMMA DropKeeps ==
  ASSUME PrepInv, NEW t \in PrepareThreads, Prepare!DropGuard(t)
  PROVE  PrepInv'
<1>1. /\ pc[t] = "drop" /\ Quiet /\ cursor' = cursor /\ owner' = owner
      /\ active' = IF active # None /\ active.generation = mine[t] THEN None ELSE active
      /\ pc' = [pc EXCEPT ![t] = "idle"] /\ mine' = [mine EXCEPT ![t] = 0]
      /\ using' = [using EXCEPT ![t] = 0] /\ opens' = [opens EXCEPT ![t] = 0]
      /\ result' = [result EXCEPT ![t] = "none"]
  BY DEF Prepare!DropGuard, Quiet
<1>2. /\ pc' \in [PrepareThreads -> Prepare!Steps] /\ mine' \in [PrepareThreads -> Nat] /\ using' \in [PrepareThreads -> Nat]
      /\ opens' \in [PrepareThreads -> Nat]
      /\ result' \in [PrepareThreads -> {"none", "cancelled", "not_found", "failed", "ok"}]
      /\ pc'[t] = "idle" /\ result'[t] = "none"
  BY <1>1 DEF PrepInv, PrepTypeOK, Prepare!Steps
<1>3. Others(t)
  BY <1>1 DEF Others, PrepInv, PrepTypeOK
<1>4. ~Busy(t)' /\ ~InSession(t)' /\ Busy(t) /\ ~InSession(t)
  BY <1>1, <1>2 DEF Busy, InSession
<1>5. TouchesOwn(t)
  BY <1>1, <1>4 DEF TouchesOwn, Current
<1>6. PrepTypeOK'
  BY <1>1, <1>2, <1>3, <1>4, QuietType DEF PrepInv, PrepTypeOK
<1>7. owner' # t
  BY <1>1, <1>4 DEF PrepInv
<1> QED BY <1>1, <1>2, <1>3, <1>4, <1>5, <1>6, <1>7, QuietKeeps

LEMMA NavigationKeeps ==
  ASSUME PrepInv, NEW t \in PrepareThreads, Prepare!WithSession(t) \/ Prepare!CloseSession(t)
  PROVE  PrepInv'
<1>1. /\ pc[t] \in {"nav_handle", "nav_lock", "close"} /\ Quiet /\ active' = active
      /\ cursor' = cursor /\ owner' = owner /\ mine' = mine /\ using' = using
      /\ opens' = opens /\ result' = result
      /\ \E step \in {"nav_lock", "idle"} : Prepare!Goto(t, step)
  BY DEF Prepare!WithSession, Prepare!CloseSession, Quiet
<1>2. PICK step \in {"nav_lock", "idle"} : Prepare!Goto(t, step)
  BY <1>1
<1>3. /\ pc' \in [PrepareThreads -> Prepare!Steps] /\ pc'[t] = step
      /\ \A u \in PrepareThreads : u # t => pc'[u] = pc[u]
  BY <1>2, GotoFacts DEF Prepare!Steps
<1>4. ~Busy(t)' /\ ~InSession(t)' /\ owner # t /\ result[t] # "cancelled"
  BY <1>1, <1>3 DEF Busy, InSession, PrepInv
<1> QED BY <1>1, <1>3, <1>4, PlainKeeps DEF PrepInv, PrepTypeOK

-----------------------------------------------------------------------------
LEMMA PrepInductive ==
  (Prepare!Init => PrepInv) /\ (PrepInv /\ [Prepare!Next]_(Prepare!vars) => PrepInv')
<1>1. Prepare!Init => PrepInv
  <2> SUFFICES ASSUME Prepare!Init PROVE PrepInv
    OBVIOUS
  <2>1. PrepTypeOK
    BY DEF Prepare!Init, PrepTypeOK, Prepare!Steps, Busy
  <2>2. \A t \in PrepareThreads : pc[t] = "idle" /\ result[t] = "none" /\ owner # t
    BY NoneApart DEF Prepare!Init
  <2>3. superseded = {}
    BY DEF Prepare!Init
  <2> QED BY <2>1, <2>2, <2>3 DEF PrepInv, Busy, InSession
<1>2. ASSUME PrepInv, UNCHANGED Prepare!vars PROVE PrepInv'
  BY <1>2 DEF Prepare!vars, PrepInv, PrepTypeOK, Busy, InSession, Current, Interrupts
<1>3. ASSUME PrepInv, Prepare!Next PROVE PrepInv'
  <2>1. PICK t \in PrepareThreads :
          \/ Prepare!BeginFramePreparation(t)
          \/ \E step \in {"nav_handle", "close"} : Prepare!CancelActiveFramePreparation(t, step)
          \/ Prepare!ThreadStep(t)
    BY <1>3 DEF Prepare!Next
  <2> QED
    BY <1>3, <2>1, BeginKeeps, CancelKeeps, GetHandleKeeps, LockKeeps, StartKeeps, PresentKeeps,
       OpenDecoderKeeps, DecodeKeeps, ShowKeeps, DropKeeps, NavigationKeeps DEF Prepare!ThreadStep
<1> QED BY <1>1, <1>2, <1>3

(***************************************************************************)
(* Whichever decoder a thread is driving, its own or one it adopted, a     *)
(* later preparation, step, jump or close has cancelled the token that     *)
(* decoder polls, and a request that nothing superseded is never answered  *)
(* "cancelled" by the token of an earlier one (begin_frame_preparation,    *)
(* cancel_active_frame_preparation, adopt_work_cancellation,               *)
(* prepare_current_frame).                                                 *)
(***************************************************************************)
THEOREM CancellationIsAlwaysExact == Prepare!Spec => []CancellationIsExact
<1>1. (Prepare!Init => PrepInv) /\ (PrepInv /\ [Prepare!Next]_(Prepare!vars) => PrepInv')
  BY PrepInductive
<1>2. PrepInv => CancellationIsExact
  <2>1. PrepInv => Prepare!SupersededWorkIsCancelled
    BY DEF PrepInv, Prepare!SupersededWorkIsCancelled, Prepare!IsCancelled, Interrupts
  <2>2. PrepInv => Prepare!OnlySupersededIsCancelled
    BY DEF PrepInv, Prepare!OnlySupersededIsCancelled
  <2> QED BY <2>1, <2>2 DEF CancellationIsExact
<1> QED BY <1>1, <1>2, PTL DEF Prepare!Spec

-----------------------------------------------------------------------------
Running == pc \in {"start", "running"}

(***************************************************************************)
(* Pruning drops every cancelled token, so the token of a cancelled        *)
(* operation is safe only because the main thread, once it has cancelled   *)
(* the active operation, holds no older id any more (the aim conjunct).    *)
(***************************************************************************)
TokensInv ==
  /\ next \in Nat \ {0} /\ mine \in 0 .. next - 1 /\ aim \in 0 .. next - 1
  /\ active \in 0 .. next - 1
  /\ asked \subseteq 1 .. next - 1 /\ DOMAIN tokens \subseteq 1 .. next - 1
  /\ tokens \in [DOMAIN tokens -> BOOLEAN]
  /\ Running => mine # 0 /\ active = mine
  /\ Running /\ mine \in asked => aim \in {0, mine}
  /\ pc = "start" => (mine \in DOMAIN tokens <=> mine \in asked)
  /\ Tokens!AcceptedCancelIsSeen

\* Pruning keeps what it keeps as it is, and every token that is not cancelled.
LEMMA PrunedFacts ==
  ASSUME NEW map, NEW id
  PROVE  /\ DOMAIN Tokens!Pruned(map, id) \subseteq DOMAIN map
         /\ \A i \in DOMAIN Tokens!Pruned(map, id) : Tokens!Pruned(map, id)[i] = map[i]
         /\ \A i \in DOMAIN map : ~map[i] => i \in DOMAIN Tokens!Pruned(map, id)
         /\ id \in DOMAIN map => Tokens!Pruned(map, id) = map
BY DEF Tokens!Pruned, Tokens!Crowded, Tokens!Without

LEMMA TokenStep ==
  ASSUME TokensInv, Tokens!OperationToken
  PROVE  TokensInv'
<1> DEFINE p == Tokens!Pruned(tokens, mine)
           v == mine \in DOMAIN p /\ p[mine]
<1>1. /\ DOMAIN p \subseteq DOMAIN tokens
      /\ \A i \in DOMAIN p : p[i] = tokens[i]
      /\ mine \in DOMAIN tokens => p = tokens
  BY PrunedFacts
<1>2. /\ pc = "start" /\ next' = next /\ active' = active /\ mine' = mine /\ aim' = aim
      /\ asked' = asked
      /\ \/ tokens' = p /\ pc' = "ended"
         \/ tokens' = Tokens!With(p, mine, v) /\ pc' = "running"
  BY DEF Tokens!OperationToken
<1>3. v \in BOOLEAN /\ (v <=> mine \in asked)
  BY <1>1, <1>2 DEF TokensInv, Tokens!AcceptedCancelIsSeen
<1> HIDE DEF v, p
<1>4. CASE tokens' = p /\ pc' = "ended"
  <2>1. tokens' \in [DOMAIN tokens' -> BOOLEAN]
    BY <1>1, <1>4 DEF TokensInv, p, Tokens!Pruned, Tokens!Without
  <2>2. DOMAIN tokens' \subseteq 1 .. next - 1
    BY <1>1, <1>4 DEF TokensInv
  <2>3. ~Running' /\ Tokens!AcceptedCancelIsSeen'
    BY <1>4 DEF Running, Tokens!AcceptedCancelIsSeen
  <2> QED BY <1>2, <1>4, <2>1, <2>2, <2>3 DEF TokensInv
<1>5. CASE tokens' = Tokens!With(p, mine, v) /\ pc' = "running"
  <2>1. /\ DOMAIN tokens' = DOMAIN p \cup {mine} /\ tokens'[mine] = v
        /\ \A i \in DOMAIN p : i # mine => tokens'[i] = tokens[i]
    BY <1>1, <1>5 DEF Tokens!With
  <2>2. tokens' \in [DOMAIN tokens' -> BOOLEAN]
    <3>1. \A i \in DOMAIN tokens' : tokens'[i] \in BOOLEAN
      BY <1>1, <1>3, <2>1 DEF TokensInv
    <3>2. tokens' = [i \in DOMAIN tokens' |-> tokens'[i]]
      BY <1>5 DEF Tokens!With
    <3> QED BY <3>1, <3>2
  <2>3. DOMAIN tokens' \subseteq 1 .. next - 1
    BY <1>1, <1>2, <2>1 DEF TokensInv, Running
  <2>4. Tokens!AcceptedCancelIsSeen'
    BY <1>2, <1>3, <1>5, <2>1 DEF Tokens!AcceptedCancelIsSeen
  <2> QED BY <1>2, <1>5, <2>2, <2>3, <2>4 DEF TokensInv, Running
<1> QED BY <1>2, <1>4, <1>5

LEMMA CancelStep ==
  ASSUME TokensInv, Tokens!Cancel
  PROVE  TokensInv'
<1> DEFINE p == Tokens!Pruned(tokens, aim)
<1>1. /\ DOMAIN p \subseteq DOMAIN tokens
      /\ \A i \in DOMAIN p : p[i] = tokens[i]
      /\ \A i \in DOMAIN tokens : ~tokens[i] => i \in DOMAIN p
      /\ aim \in DOMAIN tokens => p = tokens
  BY PrunedFacts
<1>2. /\ aim # 0 /\ aim' = 0 /\ next' = next /\ active' = active /\ mine' = mine /\ pc' = pc
      /\ \/ /\ tokens' = p /\ asked' = asked /\ Tokens!Crowded(p, aim)
         \/ /\ tokens' = Tokens!With(p, aim, TRUE)
            /\ asked' = IF aim = mine /\ Running THEN asked \cup {aim} ELSE asked
  BY Zenon DEF Tokens!Cancel, Running
<1>3. p \in [DOMAIN p -> BOOLEAN]
  BY DEF TokensInv, p, Tokens!Pruned, Tokens!Without
<1>4. DOMAIN p \subseteq 1 .. next - 1
  BY <1>1 DEF TokensInv
<1>5. Running /\ mine \in asked => p = tokens /\ aim = mine
  BY <1>1, <1>2 DEF TokensInv, Tokens!AcceptedCancelIsSeen, Running
<1>6. Tokens!Crowded(p, aim) => aim \notin DOMAIN p
  BY DEF Tokens!Crowded
<1> HIDE DEF p
<1>t. ASSUME tokens' \in [DOMAIN tokens' -> BOOLEAN],
             DOMAIN tokens' \subseteq 1 .. next - 1, asked' \subseteq 1 .. next - 1,
             pc = "start" => (mine \in DOMAIN tokens' <=> mine \in asked'),
             Tokens!AcceptedCancelIsSeen'
      PROVE  TokensInv'
  <2>1. next \in Nat \ {0} /\ mine \in 0 .. next - 1 /\ active \in 0 .. next - 1
    BY Zenon DEF TokensInv
  <2>2. /\ next' \in Nat \ {0} /\ mine' \in 0 .. next' - 1 /\ aim' \in 0 .. next' - 1
        /\ active' \in 0 .. next' - 1
    BY <1>2, <2>1
  <2>3. Running' => mine' # 0 /\ active' = mine'
    BY <1>2, Zenon DEF TokensInv, Running
  <2> QED BY <1>2, <1>t, <2>2, <2>3 DEF TokensInv
<1>7. CASE tokens' = p /\ asked' = asked /\ Tokens!Crowded(p, aim)
  <2>1. Running => mine \notin asked
    BY <1>1, <1>5, <1>6, <1>7 DEF TokensInv, Tokens!AcceptedCancelIsSeen, Running
  <2>2. pc = "start" => mine \notin DOMAIN p
    BY <1>1, <2>1 DEF TokensInv, Running
  <2>3. pc = "running" => mine \in DOMAIN p /\ ~p[mine]
    BY <1>1, <2>1 DEF TokensInv, Tokens!AcceptedCancelIsSeen, Running
  <2>4. Tokens!AcceptedCancelIsSeen'
    BY <1>2, <1>7, <2>1, <2>3 DEF Tokens!AcceptedCancelIsSeen, Running
  <2>5. asked' \subseteq 1 .. next - 1
    BY <1>7, Zenon DEF TokensInv
  <2>6. pc = "start" => (mine \in DOMAIN tokens' <=> mine \in asked')
    BY <1>7, <2>1, <2>2, Zenon DEF Running
  <2> QED BY <1>3, <1>4, <1>7, <1>t, <2>4, <2>5, <2>6, Zenon
<1>8. CASE /\ tokens' = Tokens!With(p, aim, TRUE)
           /\ asked' = IF aim = mine /\ Running THEN asked \cup {aim} ELSE asked
  <2>1. /\ DOMAIN tokens' = DOMAIN p \cup {aim} /\ tokens'[aim] = TRUE
        /\ \A i \in DOMAIN p : i # aim => tokens'[i] = p[i]
    BY <1>8 DEF Tokens!With
  <2>2. tokens' \in [DOMAIN tokens' -> BOOLEAN]
    <3>1. \A i \in DOMAIN tokens' : tokens'[i] \in BOOLEAN
      BY <1>3, <2>1, Zenon
    <3>2. tokens' = [i \in DOMAIN tokens' |-> tokens'[i]]
      BY <1>8, Zenon DEF Tokens!With
    <3> QED BY <3>1, <3>2
  <2>3. aim \in 1 .. next - 1
    BY <1>2 DEF TokensInv
  <2>4. DOMAIN tokens' \subseteq 1 .. next - 1 /\ asked' \subseteq 1 .. next - 1
    BY <1>4, <1>8, <2>1, <2>3, Zenon DEF TokensInv
  <2>5. CASE aim = mine /\ Running
    <3>1. mine \in asked' /\ mine \in DOMAIN tokens' /\ tokens'[mine]
      BY <1>8, <2>1, <2>5, Zenon
    <3>2. Tokens!AcceptedCancelIsSeen'
      BY <1>2, <3>1 DEF Tokens!AcceptedCancelIsSeen
    <3> QED BY <1>t, <2>2, <2>4, <3>1, <3>2, Zenon
  <2>6. CASE aim # mine /\ Running
    <3>1. mine \notin asked /\ asked' = asked
      BY <1>5, <1>8, <2>6
    <3>2. pc = "start" => mine \notin DOMAIN tokens'
      BY <1>1, <2>1, <2>6, <3>1 DEF TokensInv
    <3>3. pc = "running" => mine \in DOMAIN p /\ ~p[mine]
      BY <1>1, <3>1 DEF TokensInv, Tokens!AcceptedCancelIsSeen
    <3>4. pc = "running" => mine \in DOMAIN tokens' /\ ~tokens'[mine]
      BY <2>1, <2>6, <3>3
    <3>5. Tokens!AcceptedCancelIsSeen'
      BY <1>2, <3>1, <3>4 DEF Tokens!AcceptedCancelIsSeen
    <3> QED BY <1>t, <2>2, <2>4, <3>1, <3>2, <3>5, Zenon
  <2>7. CASE ~Running
    <3>1. Tokens!AcceptedCancelIsSeen'
      BY <1>2, <2>7 DEF Tokens!AcceptedCancelIsSeen, Running
    <3> QED BY <1>t, <2>2, <2>4, <2>7, <3>1, Zenon DEF Running
  <2> QED BY <2>5, <2>6, <2>7
<1> QED BY <1>2, <1>7, <1>8, Zenon

LEMMA DropStep ==
  ASSUME TokensInv, Tokens!Drop
  PROVE  TokensInv'
<1>1. /\ pc' = "ended" /\ tokens' = Tokens!Without(tokens, {mine})
      /\ next' = next /\ active' = active /\ mine' = mine /\ aim' = aim /\ asked' = asked
  BY DEF Tokens!Drop
<1>2. tokens' \in [DOMAIN tokens' -> BOOLEAN] /\ DOMAIN tokens' \subseteq DOMAIN tokens
  BY <1>1 DEF TokensInv, Tokens!Without
<1>3. ~Running' /\ Tokens!AcceptedCancelIsSeen'
  BY <1>1 DEF Running, Tokens!AcceptedCancelIsSeen
<1> QED BY <1>1, <1>2, <1>3 DEF TokensInv

LEMMA FindStep ==
  ASSUME TokensInv, Tokens!FindSimilarFrames
  PROVE  TokensInv'
<1>1. /\ next' = next + 1 /\ mine' = next /\ active' = next /\ pc' = "start"
      /\ tokens' = tokens /\ aim' = aim /\ asked' = asked
  BY DEF Tokens!FindSimilarFrames
<1>2. next \notin asked /\ next \notin DOMAIN tokens
  BY DEF TokensInv
<1>3. Tokens!AcceptedCancelIsSeen'
  BY <1>1, <1>2 DEF Tokens!AcceptedCancelIsSeen
<1> QED BY <1>1, <1>2, <1>3 DEF TokensInv, Running

LEMMA OtherSteps ==
  ASSUME TokensInv, Tokens!Abandon \/ Tokens!Finally \/ Tokens!ReadActive \/ UNCHANGED Tokens!vars
  PROVE  TokensInv'
<1>1. CASE Tokens!Abandon \/ Tokens!Finally
  <2>1. /\ pc' \in {"ended", "idle"} /\ tokens' = tokens /\ next' = next /\ mine' = mine
        /\ aim' = aim /\ asked' = asked /\ active' \in {0, active}
    BY <1>1 DEF Tokens!Abandon, Tokens!Finally
  <2>2. ~Running' /\ Tokens!AcceptedCancelIsSeen'
    BY <2>1 DEF Running, Tokens!AcceptedCancelIsSeen
  <2> QED BY <2>1, <2>2 DEF TokensInv
<1>2. CASE Tokens!ReadActive
  BY <1>2 DEF Tokens!ReadActive, TokensInv, Running, Tokens!AcceptedCancelIsSeen
<1>3. CASE UNCHANGED Tokens!vars
  BY <1>3 DEF Tokens!vars, TokensInv, Running, Tokens!AcceptedCancelIsSeen
<1> QED BY <1>1, <1>2, <1>3

(***************************************************************************)
(* A cancellation that cancel_similarity_operation answered with true is   *)
(* seen by its operation, and no operation sees one that was not asked for.*)
(***************************************************************************)
THEOREM AcceptedCancelIsAlwaysSeen == Tokens!Spec => []AcceptedCancelIsSeen
<1>1. Tokens!Init => TokensInv
  BY DEF Tokens!Init, TokensInv, Running, Tokens!AcceptedCancelIsSeen
<1>2. TokensInv /\ [Tokens!Next]_(Tokens!vars) => TokensInv'
  BY TokenStep, CancelStep, DropStep, FindStep, OtherSteps DEF Tokens!Next
<1>3. TokensInv => AcceptedCancelIsSeen
  BY DEF TokensInv, AcceptedCancelIsSeen
<1> QED
  BY <1>1, <1>2, <1>3, PTL DEF Tokens!Spec

-----------------------------------------------------------------------------
(***************************************************************************)
(* The identity of a source.                                               *)
(***************************************************************************)
LEMMA SameSequences ==
  ASSUME NEW s \in Seq(Nat), NEW t \in Seq(Nat), Len(s) = Len(t),
         \A i \in 1 .. Len(s) : s[i] = t[i]
  PROVE  s = t
OBVIOUS

LEMMA Concatenation ==
  ASSUME NEW s \in Seq(Nat), NEW t \in Seq(Nat)
  PROVE  /\ s \o t \in Seq(Nat) /\ Len(s \o t) = Len(s) + Len(t)
         /\ \A i \in 1 .. Len(s) : (s \o t)[i] = s[i]
         /\ \A i \in 1 .. Len(t) : (s \o t)[Len(s) + i] = t[i]
OBVIOUS

\* The key of a completely hashed source ends with what was hashed.
LEMMA CompleteKey ==
  ASSUME NEW n \in Nat, NEW h \in Seq(Nat)
  PROVE  LET key == Identity!StableKey(Identity!Complete(n, h))
         IN  /\ key \in Seq(Nat) /\ Len(key) = 8 + Len(h)
             /\ \A i \in 1 .. Len(h) : key[8 + i] = h[i]
<1> DEFINE head == <<2, n>>
           tag == head \o h
           front == <<1, n>> \o <<0>> \o <<0>>
           long == <<1, Len(tag)>>
           text == long \o tag
<1>1. /\ tag \in Seq(Nat) /\ Len(tag) = 2 + Len(h)
      /\ \A i \in 1 .. Len(h) : tag[2 + i] = h[i]
  <2>1. head \in Seq(Nat) /\ Len(head) = 2 /\ 2 \in Nat
    OBVIOUS
  <2> HIDE DEF head
  <2>3. /\ head \o h \in Seq(Nat) /\ Len(head \o h) = Len(head) + Len(h)
        /\ \A i \in 1 .. Len(h) : (head \o h)[Len(head) + i] = h[i]
    BY <2>1, Concatenation, Zenon
  <2> QED BY <2>1, <2>3
<1> HIDE DEF tag
<1>2. /\ text \in Seq(Nat) /\ Len(text) = 2 + Len(tag)
      /\ \A i \in 1 .. Len(tag) : text[2 + i] = tag[i]
  <2>1. long \in Seq(Nat) /\ Len(long) = 2 /\ 2 \in Nat
    BY <1>1
  <2>2. tag \in Seq(Nat)
    BY <1>1
  <2> HIDE DEF long
  <2>3. /\ long \o tag \in Seq(Nat) /\ Len(long \o tag) = Len(long) + Len(tag)
        /\ \A i \in 1 .. Len(tag) : (long \o tag)[Len(long) + i] = tag[i]
    BY <2>1, <2>2, Concatenation, Zenon
  <2> QED BY <2>1, <2>3
<1>3. front \in Seq(Nat) /\ Len(front) = 4 /\ 4 \in Nat
  OBVIOUS
<1>4. Identity!StableKey(Identity!Complete(n, h)) = front \o text
  <2>1. None \notin Nat /\ None \notin Seq(Nat)
    BY FilesAssumption
  <2>2. /\ Identity!Complete(n, h).size_bytes = n
        /\ Identity!Complete(n, h).content_tag = tag
    BY DEF Identity!Complete, Identity!FullTag, tag
  <2>3. Identity!OptionalU64(n) = <<1, n>> /\ Identity!OptionalU64(None) = <<0>>
    BY <2>1, Zenon DEF Identity!OptionalU64
  <2>4. Identity!OptionalText(None) = <<0>> /\ Identity!OptionalText(tag) = text
    BY <1>1, <2>1, Zenon DEF Identity!OptionalText, text
  <2> HIDE DEF text
  <2> QED BY <2>2, <2>3, <2>4 DEF Identity!StableKey, front
<1> HIDE DEF front, text
<1>5. /\ front \o text \in Seq(Nat) /\ Len(front \o text) = 4 + Len(text)
      /\ \A i \in 1 .. Len(text) : (front \o text)[4 + i] = text[i]
  <2>1. text \in Seq(Nat)
    BY <1>2
  <2>3. /\ front \o text \in Seq(Nat) /\ Len(front \o text) = Len(front) + Len(text)
        /\ \A i \in 1 .. Len(text) : (front \o text)[Len(front) + i] = text[i]
    BY <2>1, <1>3, Concatenation, Zenon
  <2> QED BY <1>3, <2>3
<1>6. ASSUME NEW i \in 1 .. Len(h) PROVE (front \o text)[8 + i] = h[i]
  <2>1. 2 + i \in 1 .. Len(tag) /\ 2 + (2 + i) \in 1 .. Len(text) /\ 4 + (2 + (2 + i)) = 8 + i
    BY <1>1, <1>2
  <2>2. (front \o text)[4 + (2 + (2 + i))] = h[i]
    BY <1>1, <1>2, <1>5, <2>1, Zenon
  <2> QED BY <2>1, <2>2, Zenon
<1>7. Len(front \o text) = 8 + Len(h)
  BY <1>1, <1>2, <1>5
<1> QED BY <1>4, <1>5, <1>6, <1>7, Zenon

(***************************************************************************)
(* Every call that ended has hashed nothing that counts, or as much as its *)
(* size says, and the source itself if that was not rewritten.  While it   *)
(* hashes, the bytes so far are the first ones of the source it started    *)
(* with.                                                                   *)
(***************************************************************************)
Opened == [content : Seq(Nat), disturbed : BOOLEAN,
           identity : [size_bytes : Nat \cup {None}, content_tag : Seq(Nat) \cup {None}]]
WholeOrNone(o) ==
  \/ o.identity.content_tag = None
  \/ /\ \E h \in Seq(Nat) : /\ o.identity = Identity!Complete(Len(h), h)
                            /\ ~o.disturbed => h = o.content
IdentityInv ==
  /\ file \in Seq(Nat) /\ started \in Seq(Nat) /\ hashed \in Seq(Nat)
  /\ disturbed \in BOOLEAN
  /\ DOMAIN reader = {"position", "len"} /\ reader.position \in Nat /\ reader.len \in Nat
  /\ pc = "hash" =>
       /\ Len(hashed) = reader.position /\ reader.position <= reader.len
       /\ ~disturbed => /\ file = started /\ reader.len = Len(started)
                        /\ \A i \in 1 .. Len(hashed) : hashed[i] = started[i]
  /\ opened \in Seq(Opened)
  /\ \A k \in DOMAIN opened : WholeOrNone(opened[k])

LEMMA AnswersMetadata ==
  ASSUME IdentityInv, NEW content \in Seq(Nat), NEW changed \in BOOLEAN, NEW size \in Nat \cup {None},
         Identity!Answer(content, changed, Identity!MetadataOnly(size))
  PROVE  pc' = "idle" /\ opened' \in Seq(Opened) /\ \A k \in DOMAIN opened' : WholeOrNone(opened'[k])
<1> DEFINE o == [content |-> content, disturbed |-> changed, identity |-> Identity!MetadataOnly(size)]
<1>1. opened' = Append(opened, o) /\ pc' = "idle"
  BY DEF Identity!Answer
<1>2. o \in Opened /\ o.identity.content_tag = None
  BY DEF Opened, Identity!MetadataOnly
<1>3. opened \in Seq(Opened) /\ \A k \in DOMAIN opened : WholeOrNone(opened[k])
  BY DEF IdentityInv
<1>4. WholeOrNone(o)
  BY <1>2 DEF WholeOrNone
<1> HIDE DEF o
<1> QED BY <1>1, <1>2, <1>3, <1>4

LEMMA AnswersComplete ==
  ASSUME IdentityInv, pc = "hash", reader.position = reader.len,
         Identity!Answer(started, disturbed, Identity!Complete(reader.len, hashed))
  PROVE  pc' = "idle" /\ opened' \in Seq(Opened) /\ \A k \in DOMAIN opened' : WholeOrNone(opened'[k])
<1> DEFINE it == Identity!Complete(Len(hashed), hashed)
           o == [content |-> started, disturbed |-> disturbed, identity |-> it]
<1>1. /\ hashed \in Seq(Nat) /\ started \in Seq(Nat) /\ disturbed \in BOOLEAN
      /\ reader.len = Len(hashed)
      /\ ~disturbed => /\ Len(hashed) = Len(started)
                       /\ \A i \in 1 .. Len(hashed) : hashed[i] = started[i]
  BY DEF IdentityInv
<1>2. ~disturbed => hashed = started
  BY <1>1, SameSequences
<1>3. opened' = Append(opened, o) /\ pc' = "idle"
  BY <1>1 DEF Identity!Answer
<1>4. it \in [size_bytes : Nat \cup {None}, content_tag : Seq(Nat) \cup {None}]
  <2> DEFINE tag == <<2, Len(hashed)>> \o hashed
  <2>1. tag \in Seq(Nat)
    BY <1>1
  <2>2. it = [size_bytes |-> Len(hashed), content_tag |-> tag]
    BY DEF Identity!Complete, Identity!FullTag
  <2> HIDE DEF tag, it
  <2>3. Len(hashed) \in Nat \cup {None} /\ tag \in Seq(Nat) \cup {None}
    BY <1>1, <2>1
  <2> QED BY <2>2, <2>3, Zenon
<1> HIDE DEF it
<1>5. o \in Opened
  BY <1>1, <1>4 DEF Opened
<1>6. WholeOrNone(o)
  <2>1. o.identity = Identity!Complete(Len(hashed), hashed) /\ (~o.disturbed => hashed = o.content)
    BY <1>2 DEF it
  <2> HIDE DEF o
  <2> QED BY <1>1, <2>1 DEF WholeOrNone
<1>7. opened \in Seq(Opened) /\ \A k \in DOMAIN opened : WholeOrNone(opened[k])
  BY DEF IdentityInv
<1> HIDE DEF o
<1> QED BY <1>3, <1>5, <1>6, <1>7

LEMMA IdentityStarts ==
  ASSUME IdentityInv, Identity!Start
  PROVE  IdentityInv'
<1>1. /\ started' = file /\ disturbed' = FALSE /\ hashed' = <<>> /\ file' = file
      /\ pc = "idle" /\ file \in Seq(Nat)
  BY DEF Identity!Start, IdentityInv
<1>2. ASSUME pc' = "idle" /\ opened' \in Seq(Opened) /\ \A k \in DOMAIN opened' : WholeOrNone(opened'[k]),
             reader' \in {reader, [position |-> 0, len |-> Len(file)]}
      PROVE  IdentityInv'
  <2>1. DOMAIN reader' = {"position", "len"} /\ reader'.position \in Nat /\ reader'.len \in Nat
    <3>1. CASE reader' = reader
      BY <3>1, Zenon DEF IdentityInv
    <3>2. CASE reader' = [position |-> 0, len |-> Len(file)]
      <4>1. Len(file) \in Nat
        BY <1>1
      <4> QED BY <3>2, <4>1
    <3> QED BY <1>2, <3>1, <3>2, Zenon
  <2>2. <<>> \in Seq(Nat) /\ "idle" # "hash"
    OBVIOUS
  <2>3. hashed' \in Seq(Nat) /\ disturbed' \in BOOLEAN /\ pc' # "hash"
    BY <1>1, <1>2, <2>2, Zenon
  <2> QED BY <1>1, <1>2, <2>1, <2>3, Zenon DEF IdentityInv
<1>3. CASE Identity!Answer(file, FALSE, Identity!MetadataOnly(None)) /\ UNCHANGED reader
  BY <1>1, <1>2, <1>3, AnswersMetadata, Zenon
<1>4. CASE /\ reader' = [position |-> 0, len |-> Len(file)]
           /\ Identity!Answer(file, FALSE, Identity!MetadataOnly(IF seekable THEN Len(file) ELSE None))
  <2>1. (IF seekable THEN Len(file) ELSE None) \in Nat \cup {None}
    BY <1>1
  <2>2. pc' = "idle" /\ opened' \in Seq(Opened) /\ \A k \in DOMAIN opened' : WholeOrNone(opened'[k])
    BY <1>1, <1>4, <2>1, AnswersMetadata, Zenon
  <2> QED BY <1>2, <1>4, <2>2
<1>5. CASE reader' = [position |-> 0, len |-> Len(file)] /\ pc' = "hash" /\ UNCHANGED opened
  <2>1. /\ DOMAIN reader' = {"position", "len"} /\ reader'.position = 0 /\ reader'.len = Len(file)
        /\ Len(hashed') = 0 /\ Len(file) \in Nat /\ hashed' \in Seq(Nat)
    <3>1. Len(file) \in Nat /\ hashed' \in Seq(Nat) /\ Len(hashed') = 0
      BY <1>1
    <3>2. DOMAIN reader' = {"position", "len"} /\ reader'.position = 0 /\ reader'.len = Len(file)
      BY <1>5
    <3> QED BY <3>1, <3>2, Zenon
  <2>2. /\ Len(hashed') = reader'.position /\ reader'.position <= reader'.len /\ reader'.len = Len(started')
        /\ reader'.position \in Nat /\ reader'.len \in Nat
        /\ \A i \in 1 .. Len(hashed') : hashed'[i] = started'[i]
    BY <1>1, <2>1
  <2>3. opened' \in Seq(Opened) /\ \A k \in DOMAIN opened' : WholeOrNone(opened'[k])
    BY <1>5 DEF IdentityInv
  <2> QED BY <1>1, <2>1, <2>2, <2>3, Zenon DEF IdentityInv
<1> QED BY <1>3, <1>4, <1>5, Zenon DEF Identity!Start

LEMMA Slice ==
  ASSUME NEW s \in Seq(Nat), NEW p \in Nat, NEW n \in Nat, p + n <= Len(s)
  PROVE  LET t == SubSeq(s, p + 1, p + n)
         IN  t \in Seq(Nat) /\ Len(t) = n /\ \A i \in 1 .. n : t[i] = s[p + i]
<1> DEFINE t == SubSeq(s, p + 1, p + n)
<1>1. \A i \in p + 1 .. p + n : s[i] \in Nat
  OBVIOUS
<1>2. t \in Seq(Nat) /\ Len(t) = n
  BY <1>1
<1>3. \A i \in 1 .. n : t[i] = s[(p + 1) + i - 1] /\ (p + 1) + i - 1 = p + i
  OBVIOUS
<1> QED BY <1>2, <1>3

LEMMA IdentityReads ==
  ASSUME IdentityInv, Identity!Read
  PROVE  IdentityInv'
<1>1. /\ UNCHANGED <<file, seekable, cancelled, started, disturbed>>
      /\ pc = "hash"
      /\ file \in Seq(Nat) /\ hashed \in Seq(Nat) /\ started \in Seq(Nat) /\ disturbed \in BOOLEAN
      /\ Len(hashed) = reader.position /\ reader.position \in Nat /\ reader.len \in Nat
      /\ DOMAIN reader = {"position", "len"}
      /\ ~disturbed => /\ file = started /\ reader.len = Len(started)
                       /\ \A i \in 1 .. Len(hashed) : hashed[i] = started[i]
  BY DEF Identity!Read, IdentityInv
<1>2. ASSUME NEW n \in 1 .. Chunk, reader.position + n <= reader.len, reader.position + n <= Len(file),
             hashed' = hashed \o SubSeq(file, reader.position + 1, reader.position + n),
             reader' = [reader EXCEPT !.position = @ + n], UNCHANGED <<pc, opened>>
      PROVE  IdentityInv'
  <2> DEFINE p == reader.position
             more == SubSeq(file, p + 1, p + n)
  <2>1. n \in Nat /\ p \in Nat
    BY <1>1, FilesAssumption
  <2>2. more \in Seq(Nat) /\ Len(more) = n /\ \A i \in 1 .. n : more[i] = file[p + i]
    <3> HIDE DEF p
    <3> QED BY <1>1, <1>2, <2>1, Slice, Zenon DEF p
  <2> HIDE DEF more
  <2>3. /\ hashed' \in Seq(Nat) /\ Len(hashed') = p + n
        /\ \A i \in 1 .. p : hashed'[i] = hashed[i]
        /\ \A i \in 1 .. n : hashed'[p + i] = file[p + i]
    <3>1. hashed' = hashed \o more
      BY <1>2 DEF more
    <3>2. /\ hashed \o more \in Seq(Nat) /\ Len(hashed \o more) = Len(hashed) + Len(more)
          /\ \A i \in 1 .. Len(hashed) : (hashed \o more)[i] = hashed[i]
          /\ \A i \in 1 .. Len(more) : (hashed \o more)[Len(hashed) + i] = more[i]
      BY <1>1, <2>2, Concatenation, Zenon
    <3> QED BY <1>1, <2>2, <3>1, <3>2, Zenon
  <2>4. reader'.position = p + n /\ reader'.len = reader.len /\ DOMAIN reader' = {"position", "len"}
    BY <1>1, <1>2
  <2>5. ASSUME ~disturbed, NEW i \in 1 .. Len(hashed') PROVE hashed'[i] = started[i]
    <3>1. CASE i \in 1 .. p
      BY <1>1, <2>3, <2>5, <3>1
    <3>2. CASE i \notin 1 .. p
      <4>1. i - p \in 1 .. n /\ p + (i - p) = i
        <5>1. p \in Nat /\ n \in Nat /\ Len(hashed') = p + n
          BY <2>1, <2>3, Zenon
        <5>2. i \in 1 .. p + n /\ i \notin 1 .. p
          BY <2>5, <3>2, <5>1, Zenon
        <5> HIDE DEF p
        <5> QED BY <5>1, <5>2
      <4>2. hashed'[i] = file[i]
        BY <2>3, <4>1
      <4> QED BY <1>1, <2>5, <4>2
    <3> QED BY <3>1, <3>2
  <2> HIDE DEF p
  <2>6. p + n \in Nat /\ p + n <= reader.len
    BY <1>2, <2>1 DEF p
  <2> QED BY <1>1, <1>2, <2>3, <2>4, <2>5, <2>6, Zenon DEF IdentityInv
<1>3. ASSUME Identity!GiveUp, UNCHANGED <<reader, hashed>> PROVE IdentityInv'
  <2>1. CASE cancelled
    BY <1>1, <1>3, <2>1 DEF Identity!GiveUp, IdentityInv
  <2>2. CASE ~cancelled
    <3>1. pc' = "idle" /\ opened' \in Seq(Opened) /\ \A k \in DOMAIN opened' : WholeOrNone(opened'[k])
      BY <1>1, <1>3, <2>2, AnswersMetadata DEF Identity!GiveUp
    <3> QED BY <1>1, <1>3, <3>1 DEF IdentityInv
  <2> QED BY <2>1, <2>2
<1> QED BY <1>2, <1>3, Zenon DEF Identity!Read

LEMMA IdentityInductive ==
  /\ Identity!Init => IdentityInv
  /\ IdentityInv /\ [Identity!Next]_(Identity!vars) => IdentityInv'
<1>1. ASSUME Identity!Init PROVE IdentityInv
  <2>1. file \in Seq(Nat)
    BY <1>1, FilesAssumption DEF Identity!Init
  <2>2. /\ hashed = <<>> /\ started = file /\ pc = "idle" /\ disturbed = FALSE /\ opened = <<>>
        /\ reader = [position |-> 0, len |-> 0]
    BY <1>1 DEF Identity!Init
  <2>3. /\ hashed \in Seq(Nat) /\ pc # "hash" /\ opened \in Seq(Opened) /\ DOMAIN opened = {}
        /\ DOMAIN reader = {"position", "len"} /\ reader.position \in Nat /\ reader.len \in Nat
    BY <2>2
  <2>4. disturbed \in BOOLEAN
    BY <2>2, Zenon
  <2> QED BY <2>1, <2>2, <2>3, <2>4 DEF IdentityInv
<1>2. ASSUME IdentityInv, Identity!Finish PROVE IdentityInv'
  <2>1. pc' = "idle" /\ opened' \in Seq(Opened) /\ \A k \in DOMAIN opened' : WholeOrNone(opened'[k])
    BY <1>2, AnswersComplete DEF Identity!Finish
  <2>2. UNCHANGED <<file, reader, hashed, started, disturbed>>
    BY <1>2 DEF Identity!Finish
  <2> QED BY <1>2, <2>1, <2>2 DEF IdentityInv
<1>3. ASSUME IdentityInv, Identity!Rewrite PROVE IdentityInv'
  <2>1. file' \in Seq(Nat) /\ disturbed' = TRUE /\ UNCHANGED <<reader, hashed, pc, started, opened>>
    BY <1>3, FilesAssumption DEF Identity!Rewrite
  <2>2. disturbed' \in BOOLEAN
    BY <2>1, Zenon
  <2> QED BY <1>3, <2>1, <2>2 DEF IdentityInv
<1>4. ASSUME IdentityInv, Identity!Cancel PROVE IdentityInv'
  BY <1>4 DEF Identity!Cancel, IdentityInv
<1>5. ASSUME IdentityInv, UNCHANGED Identity!vars PROVE IdentityInv'
  BY <1>5 DEF Identity!vars, IdentityInv
<1>6. ASSUME IdentityInv, [Identity!Next]_(Identity!vars) PROVE IdentityInv'
  BY <1>2, <1>3, <1>4, <1>5, <1>6, IdentityStarts, IdentityReads DEF Identity!Next
<1> QED BY <1>1, <1>6

(***************************************************************************)
(* However short the reads are and wherever the source is truncated,       *)
(* rewritten or the call cancelled: an identity that may be found again    *)
(* stands for a whole source, and of sources that were left alone while    *)
(* they were hashed exactly the equal ones share a stored index            *)
(* (hash_complete_seekable, stable_key, frame_index_path).                 *)
(***************************************************************************)
THEOREM IdentityIsAlwaysSound == Identity!Spec => []IdentityIsSound
<1>1. ASSUME IdentityInv, NEW k \in DOMAIN opened
      PROVE  /\ opened[k] \in Opened /\ k \in Nat
             /\ Identity!ReuseSafe(opened[k].identity) =>
                  \E h \in Seq(Nat) : /\ opened[k].identity = Identity!Complete(Len(h), h)
                                      /\ ~opened[k].disturbed => h = opened[k].content
  <2>1. opened[k] \in Opened /\ k \in Nat /\ WholeOrNone(opened[k])
    BY <1>1 DEF IdentityInv
  <2> QED BY <2>1, Zenon DEF WholeOrNone, Identity!ReuseSafe
<1>2. ASSUME IdentityInv PROVE Identity!ReuseSafeIsWhole
  <2> SUFFICES ASSUME NEW k \in DOMAIN opened, Identity!ReuseSafe(opened[k].identity)
               PROVE  /\ Len(opened[k].identity.content_tag) = opened[k].identity.size_bytes + 2
                      /\ ~opened[k].disturbed =>
                           opened[k].identity = Identity!Complete(Len(opened[k].content), opened[k].content)
    BY Zenon DEF Identity!ReuseSafeIsWhole
  <2>1. PICK h \in Seq(Nat) : /\ opened[k].identity = Identity!Complete(Len(h), h)
                              /\ ~opened[k].disturbed => h = opened[k].content
    BY <1>1, <1>2
  <2>2. Len(Identity!Complete(Len(h), h).content_tag) = Identity!Complete(Len(h), h).size_bytes + 2
    <3> DEFINE head == <<2, Len(h)>>
    <3>1. head \in Seq(Nat) /\ Len(head) = 2 /\ Len(h) \in Nat
      OBVIOUS
    <3>2. /\ Identity!Complete(Len(h), h).content_tag = head \o h
          /\ Identity!Complete(Len(h), h).size_bytes = Len(h)
      BY DEF Identity!Complete, Identity!FullTag
    <3> HIDE DEF head
    <3>3. Len(head \o h) = Len(head) + Len(h)
      BY <3>1, Concatenation, Zenon
    <3> QED BY <3>1, <3>2, <3>3
  <2> QED BY <2>1, <2>2, Zenon
<1>3. ASSUME IdentityInv PROVE Identity!PathsTellSourcesApart
  <2> SUFFICES ASSUME NEW j \in DOMAIN opened, NEW k \in DOMAIN opened, j # k,
                      ~opened[j].disturbed, ~opened[k].disturbed
               PROVE  Identity!PathOf(j) = Identity!PathOf(k) <=>
                        /\ Identity!ReuseSafe(opened[j].identity) /\ Identity!ReuseSafe(opened[k].identity)
                        /\ opened[j].content = opened[k].content
    BY Zenon DEF Identity!PathsTellSourcesApart
  <2> DEFINE a == opened[j].identity
             b == opened[k].identity
             c == opened[j].content
             d == opened[k].content
  <2>1. /\ Identity!PathOf(j).source = Identity!StableKey(a)
        /\ Identity!PathOf(j).operation = IF Identity!ReuseSafe(a) THEN None ELSE j
        /\ Identity!PathOf(k).source = Identity!StableKey(b)
        /\ Identity!PathOf(k).operation = IF Identity!ReuseSafe(b) THEN None ELSE k
        /\ DOMAIN Identity!PathOf(j) = {"source", "operation"}
        /\ DOMAIN Identity!PathOf(k) = {"source", "operation"}
    BY DEF Identity!PathOf, Identity!FrameIndexPath
  <2>2. c \in Seq(Nat) /\ d \in Seq(Nat) /\ j \in Nat /\ k \in Nat /\ j # None /\ k # None
    BY <1>1, <1>3, FilesAssumption DEF Opened
  <2>3. CASE Identity!ReuseSafe(a) /\ Identity!ReuseSafe(b)
    <3>1. a = Identity!Complete(Len(c), c) /\ b = Identity!Complete(Len(d), d)
      BY <1>1, <1>3, <2>3, Zenon
    <3>2. c = d => Identity!PathOf(j) = Identity!PathOf(k)
      BY <2>3, <3>1, Zenon DEF Identity!PathOf, Identity!FrameIndexPath
    <3>3. ASSUME Identity!PathOf(j) = Identity!PathOf(k) PROVE c = d
      <4> DEFINE x == Identity!StableKey(Identity!Complete(Len(c), c))
                 y == Identity!StableKey(Identity!Complete(Len(d), d))
      <4>1. x = y
        BY <2>1, <3>1, <3>3, Zenon
      <4>2. /\ Len(x) = 8 + Len(c) /\ \A i \in 1 .. Len(c) : x[8 + i] = c[i]
            /\ Len(y) = 8 + Len(d) /\ \A i \in 1 .. Len(d) : y[8 + i] = d[i]
            /\ Len(c) \in Nat /\ Len(d) \in Nat
        <5> HIDE DEF c, d
        <5>1. Len(c) \in Nat /\ Len(d) \in Nat
          BY <2>2
        <5> QED BY <2>2, <5>1, CompleteKey, Zenon
      <4> HIDE DEF x, y, c, d
      <4>3. Len(c) = Len(d) /\ \A i \in 1 .. Len(c) : c[i] = d[i]
        BY <4>1, <4>2
      <4> QED BY <2>2, <4>3, SameSequences
    <3> QED BY <2>3, <3>2, <3>3
  <2>4. CASE ~(Identity!ReuseSafe(a) /\ Identity!ReuseSafe(b))
    <3>1. Identity!PathOf(j).operation # Identity!PathOf(k).operation
      <4> HIDE DEF a, b
      <4> QED BY <2>1, <2>2, <2>4
    <3> QED BY <2>4, <3>1
  <2> QED BY <2>3, <2>4
<1>4. IdentityInv => IdentityIsSound
  BY <1>2, <1>3 DEF IdentityIsSound
<1> QED BY <1>4, IdentityInductive, PTL DEF Identity!Spec
====
