---- MODULE ClientCallsProofs ----
(***************************************************************************)
(* What the client shows of native work, for any number of exports,        *)
(* navigations, frames and samples.                                        *)
(***************************************************************************)
EXTENDS ClientCalls, TLAPS

(***************************************************************************)
(* Export of one frame.  The session's generation names the current frame, *)
(* so pixels copied for a generation are those of the frame that was       *)
(* current when they were prepared; the view model's generation names the  *)
(* one job that may still change the screen.                               *)
(***************************************************************************)
JobFields ==
  {"pc", "alive", "epoch", "request", "name", "target", "revision", "prepared", "generation",
   "pixels", "document", "outcome"}

JobOk(r, s) ==
  /\ DOMAIN r = JobFields
  /\ r.pc = "copy" =>
       /\ r.generation \in Nat /\ r.generation <= s.generation
       /\ r.generation = s.generation => r.prepared = s.current
  /\ r.pc \in {"encode", "check", "commit"} => r.pixels = r.prepared
  /\ r.outcome = "ok" =>
       r.pc \in {"close", "deliver", "done"} /\ r.pixels = r.prepared /\ r.prepared = r.name
  /\ r.document = "kept" => r.pc \in {"deliver", "done"} /\ r.outcome = "ok"
  /\ r.outcome = "ok" /\ r.pc \in {"deliver", "done"} => r.document = "kept"

LaunchOk(j, r, e, u) ==
  r.pc \notin {"new", "done"} =>
    /\ r.epoch \in Nat /\ r.epoch <= e
    /\ r.epoch = e => u.state = "exporting" /\ u.job = j /\ u.request = r.request

SessionOk(s) == DOMAIN s = {"current", "generation", "prepared"} /\ s.generation \in Nat

ShownOk(u, jobs) ==
  /\ DOMAIN u = {"state", "request", "job", "exported"}
  /\ u.state = "success" =>
       /\ u.job \in Jobs /\ jobs[u.job].pc = "done" /\ jobs[u.job].outcome = "ok"
       /\ u.exported = u.request /\ jobs[u.job].prepared = u.request

ExportInv ==
  /\ SessionOk(session) /\ epoch \in Nat /\ DOMAIN job = Jobs /\ ShownOk(ui, job)
  /\ \A j \in Jobs : JobOk(job[j], session) /\ LaunchOk(j, job[j], epoch, ui)

\* A newer session state of the same frame, or of a later generation.
Follows(s, t) ==
  /\ SessionOk(t) /\ s.generation <= t.generation
  /\ t.generation = s.generation => t.current = s.current

LEMMA JobFollows ==
  ASSUME NEW r, NEW s, NEW t, SessionOk(s), JobOk(r, s), Follows(s, t)
  PROVE  JobOk(r, t)
BY DEF JobOk, SessionOk, Follows

LEMMA SetCurrentFollows ==
  ASSUME SessionOk(session), NEW f, Export!SetCurrentFrame(f)
  PROVE  Follows(session, session')
<1>1. CASE f = session.current
  BY <1>1 DEF Export!SetCurrentFrame, Follows, SessionOk
<1>2. CASE f # session.current
  <2>1. session' = [current |-> f, generation |-> session.generation + 1, prepared |-> None]
    BY <1>2 DEF Export!SetCurrentFrame
  <2>2. DOMAIN session' = {"current", "generation", "prepared"} /\ session'.generation = session.generation + 1
    BY <2>1
  <2> QED BY <2>2 DEF Follows, SessionOk
<1> QED BY <1>1, <1>2

LEMMA PrepareFollows ==
  ASSUME SessionOk(session), Export!PrepareCurrentFrame
  PROVE  Follows(session, session')
<1>1. /\ DOMAIN session' = DOMAIN session /\ session'.generation = session.generation
      /\ session'.current = session.current
  BY DEF Export!PrepareCurrentFrame, SessionOk
<1> QED BY <1>1 DEF Follows, SessionOk

LEMMA SessionMoves ==
  ASSUME ExportInv, Follows(session, session'), job' = job, ui' = ui, epoch' = epoch
  PROVE  ExportInv'
<1>1. SessionOk(session) /\ SessionOk(session') /\ ShownOk(ui, job) /\ DOMAIN job = Jobs /\ epoch \in Nat
  BY DEF ExportInv, Follows
<1>2. \A j \in Jobs : JobOk(job[j], session') /\ LaunchOk(j, job[j], epoch, ui)
  BY <1>1, JobFollows DEF ExportInv
<1> QED BY <1>1, <1>2 DEF ExportInv

\* One export moves on; the screen and its generation stay.
LEMMA JobMoves ==
  ASSUME ExportInv, NEW j \in Jobs, NEW n, job' = [job EXCEPT ![j] = n], job[j].pc # "done",
         Follows(session, session'), JobOk(n, session'), LaunchOk(j, n, epoch, ui),
         ui' = ui, epoch' = epoch
  PROVE  ExportInv'
<1>1. SessionOk(session) /\ SessionOk(session') /\ ShownOk(ui, job) /\ DOMAIN job = Jobs /\ epoch \in Nat
  BY DEF ExportInv, Follows
<1>2. DOMAIN job' = Jobs /\ job'[j] = n /\ \A i \in Jobs : i # j => job'[i] = job[i]
  BY <1>1
<1>3. \A i \in Jobs : JobOk(job'[i], session') /\ LaunchOk(i, job'[i], epoch, ui)
  BY <1>1, <1>2, JobFollows DEF ExportInv
<1>4. ShownOk(ui, job')
  BY <1>1, <1>2 DEF ShownOk
<1> QED BY <1>1, <1>2, <1>3, <1>4 DEF ExportInv

LEMMA StaysFollows ==
  ASSUME ExportInv, session' = session
  PROVE  Follows(session, session')
BY DEF ExportInv, SessionOk, Follows

\* An export ends without a result.
LEMMA EndMoves ==
  ASSUME ExportInv, NEW j \in Jobs, NEW o \in {"cancelled", "error"}, Export!End(j, o),
         job[j].pc \notin {"new", "close", "deliver", "done"}, session' = session, ui' = ui, epoch' = epoch
  PROVE  ExportInv'
<1> DEFINE r == job[j]
           n == [r EXCEPT !.pc = "close", !.outcome = o]
<1>1. job' = [job EXCEPT ![j] = n] /\ Follows(session, session')
  BY StaysFollows DEF Export!End
<1>2. JobOk(r, session) /\ LaunchOk(j, r, epoch, ui) /\ r.pc \notin {"new", "close", "deliver", "done"}
  BY DEF ExportInv
<1> HIDE DEF r
<1>3. /\ DOMAIN n = DOMAIN r /\ n.pc = "close" /\ n.outcome = o /\ n.document = r.document
      /\ n.epoch = r.epoch /\ n.request = r.request
  BY <1>2 DEF JobOk, JobFields
<1>4. JobOk(n, session) /\ LaunchOk(j, n, epoch, ui)
  <2> HIDE DEF n
  <2> QED BY <1>2, <1>3 DEF JobOk, LaunchOk
<1> HIDE DEF n
<1>5. job[j].pc # "done"
  OBVIOUS
<1> QED BY <1>1, <1>4, <1>5, JobMoves

LEMMA GotoMoves ==
  ASSUME ExportInv, NEW j \in Jobs, Export!Goto(j, "target"), job[j].pc = "claim",
         session' = session, ui' = ui, epoch' = epoch
  PROVE  ExportInv'
<1> DEFINE r == job[j]
           n == [r EXCEPT !.pc = "target"]
<1>1. job' = [job EXCEPT ![j] = n] /\ Follows(session, session')
  BY StaysFollows DEF Export!Goto
<1>2. JobOk(r, session) /\ LaunchOk(j, r, epoch, ui) /\ r.pc = "claim"
  BY DEF ExportInv
<1> HIDE DEF r
<1>3. /\ DOMAIN n = DOMAIN r /\ n.pc = "target" /\ n.outcome = r.outcome /\ n.document = r.document
      /\ n.epoch = r.epoch /\ n.request = r.request
  BY <1>2 DEF JobOk, JobFields
<1>4. JobOk(n, session) /\ LaunchOk(j, n, epoch, ui)
  <2> HIDE DEF n
  <2> QED BY <1>2, <1>3 DEF JobOk, LaunchOk
<1> HIDE DEF n
<1> QED BY <1>1, <1>4, JobMoves

LEMMA EarlySteps ==
  ASSUME ExportInv, NEW j \in Jobs,
         Export!CreateDestination(j) \/ Export!ClaimOperation(j) \/ Export!ReadTarget(j)
  PROVE  ExportInv'
<1> DEFINE r == job[j]
<1>0. /\ session' = session /\ ui' = ui /\ epoch' = epoch
      /\ r.pc \in {"name", "claim", "target", "revision"}
  BY DEF Export!CreateDestination, Export!ClaimOperation, Export!ReadTarget, Export!At
<1>1. JobOk(r, session) /\ LaunchOk(j, r, epoch, ui)
  BY DEF ExportInv
<1>2. Follows(session, session')
  BY <1>0, StaysFollows
<1>3. CASE \E o \in {"cancelled", "error"} : Export!End(j, o)
  BY <1>0, <1>3, EndMoves
<1>4. CASE r.pc = "name" /\ job' = [job EXCEPT ![j].pc = "claim", ![j].name = snapshot, ![j].document = "empty"]
  <2> DEFINE n == [r EXCEPT !.pc = "claim", !.name = snapshot, !.document = "empty"]
  <2>1. job' = [job EXCEPT ![j] = n]
    BY <1>4
  <2> HIDE DEF r
  <2>2. /\ DOMAIN n = DOMAIN r /\ n.pc = "claim" /\ n.outcome = r.outcome /\ n.document = "empty"
        /\ n.epoch = r.epoch /\ n.request = r.request
    BY <1>1 DEF JobOk, JobFields
  <2> HIDE DEF n
  <2>3. JobOk(n, session) /\ LaunchOk(j, n, epoch, ui)
    BY <1>1, <1>4, <2>2 DEF JobOk, LaunchOk
  <2> QED BY <1>0, <1>2, <2>1, <2>3, JobMoves DEF r
<1>5. CASE r.pc = "claim" /\ Export!Goto(j, "target")
  BY <1>0, <1>5, GotoMoves
<1>6. CASE r.pc = "target" /\ job' = [job EXCEPT ![j].pc = "revision", ![j].target = snapshot]
  <2> DEFINE n == [r EXCEPT !.pc = "revision", !.target = snapshot]
  <2>1. job' = [job EXCEPT ![j] = n]
    BY <1>6
  <2> HIDE DEF r
  <2>2. /\ DOMAIN n = DOMAIN r /\ n.pc = "revision" /\ n.outcome = r.outcome /\ n.document = r.document
        /\ n.epoch = r.epoch /\ n.request = r.request
    BY <1>1 DEF JobOk, JobFields
  <2> HIDE DEF n
  <2>3. JobOk(n, session) /\ LaunchOk(j, n, epoch, ui)
    BY <1>1, <1>6, <2>2 DEF JobOk, LaunchOk
  <2> QED BY <1>0, <1>2, <2>1, <2>3, JobMoves DEF r
<1>7. CASE r.pc = "revision" /\ job' = [job EXCEPT ![j].pc = "prepare", ![j].revision = revision]
  <2> DEFINE n == [r EXCEPT !.pc = "prepare", !.revision = revision]
  <2>1. job' = [job EXCEPT ![j] = n]
    BY <1>7
  <2> HIDE DEF r
  <2>2. /\ DOMAIN n = DOMAIN r /\ n.pc = "prepare" /\ n.outcome = r.outcome /\ n.document = r.document
        /\ n.epoch = r.epoch /\ n.request = r.request
    BY <1>1 DEF JobOk, JobFields
  <2> HIDE DEF n
  <2>3. JobOk(n, session) /\ LaunchOk(j, n, epoch, ui)
    BY <1>1, <1>7, <2>2 DEF JobOk, LaunchOk
  <2> QED BY <1>0, <1>2, <2>1, <2>3, JobMoves DEF r
<1> QED BY <1>3, <1>4, <1>5, <1>6, <1>7
        DEF Export!CreateDestination, Export!ClaimOperation, Export!ReadTarget, Export!At

\* The pixels that are copied are of the frame that was prepared.
LEMMA NativeSteps ==
  ASSUME ExportInv, NEW j \in Jobs,
         Export!Prepare(j) \/ Export!CopyPreparedFrame(j) \/ Export!EncodeFrame(j)
  PROVE  ExportInv'
<1> DEFINE r == job[j]
<1>0. ui' = ui /\ epoch' = epoch /\ r.pc \in {"prepare", "copy", "encode"}
  BY DEF Export!Prepare, Export!CopyPreparedFrame, Export!EncodeFrame, Export!At
<1>1. JobOk(r, session) /\ LaunchOk(j, r, epoch, ui) /\ SessionOk(session)
  BY DEF ExportInv
<1>2. CASE \E o \in {"cancelled", "error"} : Export!Fail(j, o)
  <2>1. PICK o \in {"cancelled", "error"} : Export!End(j, o) /\ session' = session
    BY <1>2 DEF Export!Fail
  <2> QED BY <1>0, <2>1, EndMoves
<1>3. CASE /\ r.pc = "prepare" /\ Export!PrepareCurrentFrame
           /\ job' = [job EXCEPT ![j].pc = "copy", ![j].prepared = session.current,
                                 ![j].generation = session.generation]
  <2> DEFINE n == [r EXCEPT !.pc = "copy", !.prepared = session.current, !.generation = session.generation]
  <2>1. job' = [job EXCEPT ![j] = n]
    BY <1>3
  <2> HIDE DEF r
  <2>2. /\ DOMAIN n = DOMAIN r /\ n.pc = "copy" /\ n.outcome = r.outcome /\ n.document = r.document
        /\ n.epoch = r.epoch /\ n.request = r.request
        /\ n.prepared = session.current /\ n.generation = session.generation
    BY <1>1 DEF JobOk, JobFields
  <2> HIDE DEF n
  <2>3. JobOk(n, session) /\ LaunchOk(j, n, epoch, ui)
    BY <1>1, <1>3, <2>2 DEF JobOk, LaunchOk, SessionOk
  <2>4. Follows(session, session')
    BY <1>1, <1>3, PrepareFollows
  <2>5. JobOk(n, session')
    BY <1>1, <2>3, <2>4, JobFollows
  <2> QED BY <1>0, <2>1, <2>3, <2>4, <2>5, JobMoves DEF r
<1>4. CASE /\ r.pc = "copy" /\ Export!Serves(r.generation) /\ session' = session
           /\ job' = [job EXCEPT ![j].pc = "encode", ![j].pixels = session.prepared]
  <2> DEFINE n == [r EXCEPT !.pc = "encode", !.pixels = session.prepared]
  <2>1. job' = [job EXCEPT ![j] = n]
    BY <1>4
  <2> HIDE DEF r
  <2>2. /\ DOMAIN n = DOMAIN r /\ n.pc = "encode" /\ n.outcome = r.outcome /\ n.document = r.document
        /\ n.epoch = r.epoch /\ n.request = r.request
        /\ n.prepared = r.prepared /\ n.pixels = session.prepared
    BY <1>1 DEF JobOk, JobFields
  <2> HIDE DEF n
  <2>3. r.prepared = session.prepared
    BY <1>1, <1>4 DEF JobOk, Export!Serves
  <2>4. JobOk(n, session) /\ LaunchOk(j, n, epoch, ui)
    BY <1>1, <1>4, <2>2, <2>3 DEF JobOk, LaunchOk
  <2> QED BY <1>0, <1>4, <2>1, <2>4, StaysFollows, JobMoves DEF r
<1>5. CASE /\ r.pc = "encode" /\ session' = session
           /\ job' = [job EXCEPT ![j].pc = "close", ![j].outcome = "error", ![j].document = "partial"]
  <2> DEFINE n == [r EXCEPT !.pc = "close", !.outcome = "error", !.document = "partial"]
  <2>1. job' = [job EXCEPT ![j] = n]
    BY <1>5
  <2> HIDE DEF r
  <2>2. /\ DOMAIN n = DOMAIN r /\ n.pc = "close" /\ n.outcome = "error" /\ n.document = "partial"
        /\ n.epoch = r.epoch /\ n.request = r.request
    BY <1>1 DEF JobOk, JobFields
  <2> HIDE DEF n
  <2>3. JobOk(n, session) /\ LaunchOk(j, n, epoch, ui)
    BY <1>1, <1>5, <2>2 DEF JobOk, LaunchOk
  <2> QED BY <1>0, <1>5, <2>1, <2>3, StaysFollows, JobMoves DEF r
<1>6. CASE /\ r.pc = "encode" /\ session' = session
           /\ job' = [job EXCEPT ![j].pc = "check", ![j].document = "whole"]
  <2> DEFINE n == [r EXCEPT !.pc = "check", !.document = "whole"]
  <2>1. job' = [job EXCEPT ![j] = n]
    BY <1>6
  <2> HIDE DEF r
  <2>2. /\ DOMAIN n = DOMAIN r /\ n.pc = "check" /\ n.outcome = r.outcome /\ n.document = "whole"
        /\ n.epoch = r.epoch /\ n.request = r.request
        /\ n.prepared = r.prepared /\ n.pixels = r.pixels
    BY <1>1 DEF JobOk, JobFields
  <2> HIDE DEF n
  <2>3. JobOk(n, session) /\ LaunchOk(j, n, epoch, ui)
    BY <1>1, <1>6, <2>2 DEF JobOk, LaunchOk
  <2> QED BY <1>0, <1>6, <2>1, <2>3, StaysFollows, JobMoves DEF r
<1> QED BY <1>2, <1>3, <1>4, <1>5, <1>6
        DEF Export!Prepare, Export!CopyPreparedFrame, Export!EncodeFrame, Export!At

LEMMA LateSteps ==
  ASSUME ExportInv, NEW j \in Jobs,
         Export!CheckResult(j) \/ Export!Commit(j) \/ Export!CloseDestination(j)
  PROVE  ExportInv'
<1> DEFINE r == job[j]
<1>0. session' = session /\ ui' = ui /\ epoch' = epoch /\ r.pc \in {"check", "commit", "close"}
  BY DEF Export!CheckResult, Export!Commit, Export!CloseDestination, Export!At
<1>1. JobOk(r, session) /\ LaunchOk(j, r, epoch, ui) /\ Follows(session, session')
  BY <1>0, StaysFollows DEF ExportInv
<1>2. CASE r.pc # "close" /\ \E o \in {"cancelled", "error"} : Export!End(j, o)
  BY <1>0, <1>2, EndMoves
<1>3. CASE r.pc = "check" /\ Export!Goto(j, "commit")
  <2> DEFINE n == [r EXCEPT !.pc = "commit"]
  <2>1. job' = [job EXCEPT ![j] = n]
    BY <1>3 DEF Export!Goto
  <2> HIDE DEF r
  <2>2. /\ DOMAIN n = DOMAIN r /\ n.pc = "commit" /\ n.outcome = r.outcome /\ n.document = r.document
        /\ n.epoch = r.epoch /\ n.request = r.request /\ n.prepared = r.prepared /\ n.pixels = r.pixels
    BY <1>1 DEF JobOk, JobFields
  <2> HIDE DEF n
  <2>3. JobOk(n, session) /\ LaunchOk(j, n, epoch, ui)
    BY <1>1, <1>3, <2>2 DEF JobOk, LaunchOk
  <2> QED BY <1>0, <1>1, <2>1, <2>3, JobMoves DEF r
<1>4. CASE /\ r.pc = "commit" /\ r.prepared = r.name
           /\ job' = [job EXCEPT ![j].pc = "close", ![j].outcome = "ok"]
  <2> DEFINE n == [r EXCEPT !.pc = "close", !.outcome = "ok"]
  <2>1. job' = [job EXCEPT ![j] = n]
    BY <1>4
  <2> HIDE DEF r
  <2>2. /\ DOMAIN n = DOMAIN r /\ n.pc = "close" /\ n.outcome = "ok" /\ n.document = r.document
        /\ n.epoch = r.epoch /\ n.request = r.request /\ n.prepared = r.prepared /\ n.pixels = r.pixels
        /\ n.name = r.name
    BY <1>1 DEF JobOk, JobFields
  <2> HIDE DEF n
  <2>3. JobOk(n, session) /\ LaunchOk(j, n, epoch, ui)
    BY <1>1, <1>4, <2>2 DEF JobOk, LaunchOk
  <2> QED BY <1>0, <1>1, <2>1, <2>3, JobMoves DEF r
<1>5. CASE Export!CloseDestination(j)
  <2> DEFINE d == IF r.outcome = "ok" THEN "kept" ELSE "none"
             n == [r EXCEPT !.pc = "deliver", !.document = d]
  <2>1. job' = [job EXCEPT ![j] = n] /\ r.pc = "close"
    BY <1>5 DEF Export!CloseDestination, Export!At
  <2>2. d = "kept" <=> r.outcome = "ok"
    OBVIOUS
  <2> HIDE DEF r, d
  <2>3. /\ DOMAIN n = DOMAIN r /\ n.pc = "deliver" /\ n.outcome = r.outcome /\ n.document = d
        /\ n.epoch = r.epoch /\ n.request = r.request /\ n.prepared = r.prepared /\ n.pixels = r.pixels
        /\ n.name = r.name
    BY <1>1 DEF JobOk, JobFields
  <2> HIDE DEF n
  <2>4. JobOk(n, session) /\ LaunchOk(j, n, epoch, ui)
    BY <1>1, <2>1, <2>2, <2>3 DEF JobOk, LaunchOk
  <2> QED BY <1>0, <1>1, <2>1, <2>4, JobMoves DEF r
<1> QED BY <1>2, <1>3, <1>4, <1>5 DEF Export!CheckResult, Export!Commit, Export!At

LEMMA DeliverMoves ==
  ASSUME ExportInv, NEW j \in Jobs, Export!Deliver(j)
  PROVE  ExportInv'
<1> DEFINE r == job[j]
           n == [r EXCEPT !.pc = "done"]
<1>0. session' = session /\ epoch' = epoch /\ r.pc = "deliver" /\ job' = [job EXCEPT ![j] = n]
  BY DEF Export!Deliver, Export!At, Export!Goto
<1>1. /\ JobOk(r, session) /\ LaunchOk(j, r, epoch, ui) /\ SessionOk(session) /\ epoch \in Nat
      /\ ShownOk(ui, job) /\ DOMAIN job = Jobs
      /\ \A i \in Jobs : JobOk(job[i], session) /\ LaunchOk(i, job[i], epoch, ui)
  BY DEF ExportInv
<1>2. ui' = IF r.epoch = epoch THEN Export!Shown(j, r.prepared = r.request) ELSE ui
  BY DEF Export!Deliver
<1>3. /\ DOMAIN n = DOMAIN r /\ n.pc = "done" /\ n.outcome = r.outcome /\ n.document = r.document
      /\ n.prepared = r.prepared /\ n.pixels = r.pixels /\ n.name = r.name
  <2> HIDE DEF r
  <2> QED BY <1>1 DEF JobOk, JobFields
<1> HIDE DEF n
<1>4. JobOk(n, session) /\ \A e, u : LaunchOk(j, n, e, u)
  <2> HIDE DEF r
  <2> QED BY <1>0, <1>1, <1>3 DEF JobOk, LaunchOk
<1>5. DOMAIN job' = Jobs /\ job'[j] = n /\ \A i \in Jobs : i # j => job'[i] = job[i]
  BY <1>0, <1>1
<1>6. CASE r.epoch = epoch
  <2>1. ui.job = j /\ ui.request = r.request /\ ui.state = "exporting"
    BY <1>0, <1>1, <1>6 DEF LaunchOk
  <2>2. ASSUME NEW i \in Jobs, i # j PROVE LaunchOk(i, job[i], epoch, ui')
    <3>1. LaunchOk(i, job[i], epoch, ui) /\ ui.job # i
      BY <1>1, <2>1, <2>2
    <3> QED BY <3>1 DEF LaunchOk
  <2>3. ShownOk(ui', job')
    <3>1. DOMAIN ui = {"state", "request", "job", "exported"}
      BY <1>1 DEF ShownOk
    <3>2. CASE ui' = [ui EXCEPT !.state = "success", !.exported = r.prepared] /\ r.outcome = "ok"
                 /\ r.prepared = r.request
      <4>1. /\ DOMAIN ui' = DOMAIN ui /\ ui'.exported = r.prepared /\ ui'.request = ui.request
            /\ ui'.job = ui.job
        BY <3>1, <3>2
      <4> QED BY <1>3, <1>5, <2>1, <3>1, <3>2, <4>1 DEF ShownOk
    <3>3. ASSUME NEW s \in {"idle", "error"}, ui' = [ui EXCEPT !.state = s] PROVE ShownOk(ui', job')
      <4>1. DOMAIN ui' = DOMAIN ui /\ ui'.state = s
        BY <3>1, <3>3
      <4> QED BY <3>1, <4>1 DEF ShownOk
    <3>4. ui' = Export!Shown(j, r.prepared = r.request)
      BY <1>2, <1>6
    <3>5. \/ ui' = [ui EXCEPT !.state = "success", !.exported = r.prepared] /\ r.outcome = "ok"
             /\ r.prepared = r.request
          \/ \E s \in {"idle", "error"} : ui' = [ui EXCEPT !.state = s]
      BY <3>4 DEF Export!Shown
    <3> QED BY <3>2, <3>3, <3>5
  <2>4. \A i \in Jobs : JobOk(job'[i], session) /\ LaunchOk(i, job'[i], epoch, ui')
    BY <1>1, <1>4, <1>5, <2>2
  <2> QED BY <1>0, <1>1, <1>5, <2>3, <2>4 DEF ExportInv
<1>7. CASE r.epoch # epoch
  <2>1. ui' = ui
    BY <1>2, <1>7
  <2>2. ShownOk(ui, job')
    BY <1>0, <1>1, <1>5 DEF ShownOk
  <2>3. \A i \in Jobs : JobOk(job'[i], session) /\ LaunchOk(i, job'[i], epoch, ui)
    BY <1>1, <1>4, <1>5
  <2> QED BY <1>0, <1>1, <1>5, <2>1, <2>2, <2>3 DEF ExportInv
<1> QED BY <1>6, <1>7

\* Stopping a job changes nothing but that it is not alive.
LEMMA StopKeeps ==
  ASSUME DOMAIN job = Jobs, NEW i \in Jobs, DOMAIN job[i] = JobFields
  PROVE  /\ DOMAIN Export!Stop(job) = Jobs /\ DOMAIN Export!Stop(job)[i] = JobFields
         /\ \A x \in JobFields \ {"alive"} : Export!Stop(job)[i][x] = job[i][x]
<1>1. CASE ui.job = None
  BY <1>1 DEF Export!Stop
<1>2. CASE ui.job # None
  <2>1. Export!Stop(job) = [job EXCEPT ![ui.job] = [job[ui.job] EXCEPT !.alive = FALSE]]
    BY <1>2 DEF Export!Stop
  <2>2. Export!Stop(job)[i] = IF i = ui.job THEN [job[i] EXCEPT !.alive = FALSE] ELSE job[i]
    BY <2>1
  <2> QED BY <2>1, <2>2 DEF JobFields
<1> QED BY <1>1, <1>2

LEMMA StoppedOk ==
  ASSUME ExportInv, NEW i \in Jobs
  PROVE  /\ JobOk(Export!Stop(job)[i], session) /\ DOMAIN Export!Stop(job) = Jobs
         /\ Export!Stop(job)[i].pc = job[i].pc /\ Export!Stop(job)[i].epoch = job[i].epoch
         /\ Export!Stop(job)[i].request = job[i].request /\ Export!Stop(job)[i].document = job[i].document
         /\ Export!Stop(job)[i].outcome = job[i].outcome
<1> DEFINE r == job[i]
           n == Export!Stop(job)[i]
<1>1. JobOk(r, session) /\ DOMAIN job = Jobs
  BY DEF ExportInv
<1>2. DOMAIN r = JobFields
  BY <1>1 DEF JobOk
<1>3. DOMAIN Export!Stop(job) = Jobs /\ DOMAIN n = JobFields /\ \A x \in JobFields \ {"alive"} : n[x] = r[x]
  BY <1>1, <1>2, StopKeeps
<1> HIDE DEF n, r
<1>4. /\ n.pc = r.pc /\ n.epoch = r.epoch /\ n.request = r.request /\ n.name = r.name
      /\ n.prepared = r.prepared /\ n.generation = r.generation /\ n.pixels = r.pixels
      /\ n.document = r.document /\ n.outcome = r.outcome
  BY <1>3 DEF JobFields
<1>5. JobOk(n, session)
  BY <1>1, <1>3, <1>4 DEF JobOk
<1> QED BY <1>3, <1>4, <1>5 DEF n, r

LEMMA CancelWorkKeeps ==
  ASSUME ExportInv, NEW u, DOMAIN u = {"state", "request", "job", "exported"}, u.state # "success",
         Export!CancelWork(u)
  PROVE  ExportInv'
<1>1. epoch' = epoch + 1 /\ job' = Export!Stop(job) /\ session' = session /\ ui' = [u EXCEPT !.job = None]
  BY DEF Export!CancelWork
<1>2. DOMAIN ui' = DOMAIN u /\ ui'.state = u.state
  BY <1>1
<1>3. /\ SessionOk(session) /\ epoch \in Nat /\ DOMAIN job' = Jobs
      /\ \A i \in Jobs : LaunchOk(i, job[i], epoch, ui)
  <2>1. DOMAIN job = Jobs /\ SessionOk(session) /\ epoch \in Nat /\ \A i \in Jobs : LaunchOk(i, job[i], epoch, ui)
    BY DEF ExportInv
  <2>2. DOMAIN Export!Stop(job) = Jobs
    BY <2>1 DEF Export!Stop
  <2> QED BY <1>1, <2>1, <2>2
<1>4. ShownOk(ui', job')
  BY <1>2 DEF ShownOk
<1>5. ASSUME NEW i \in Jobs PROVE JobOk(job'[i], session) /\ LaunchOk(i, job'[i], epoch', ui')
  <2>1. JobOk(job'[i], session) /\ job'[i].pc = job[i].pc /\ job'[i].epoch = job[i].epoch
    BY <1>1, StoppedOk
  <2>2. LaunchOk(i, job[i], epoch, ui)
    BY <1>3
  <2> QED BY <1>1, <1>3, <2>1, <2>2 DEF LaunchOk
<1> QED BY <1>1, <1>3, <1>4, <1>5 DEF ExportInv

LEMMA SelectedKeeps ==
  ASSUME ExportInv, NEW j \in Jobs, NEW f, Export!OnDestinationSelected(j, f)
  PROVE  ExportInv'
<1>0. /\ SessionOk(session) /\ epoch \in Nat /\ DOMAIN job = Jobs /\ ShownOk(ui, job)
      /\ \A i \in Jobs : JobOk(job[i], session) /\ LaunchOk(i, job[i], epoch, ui)
      /\ DOMAIN ui = {"state", "request", "job", "exported"}
  BY DEF ExportInv, ShownOk
<1>1. ui.state = "awaiting" /\ job[j].pc = "new" /\ session' = session
  BY DEF Export!OnDestinationSelected
<1>2. CASE ui' = [ui EXCEPT !.state = "error"] /\ epoch' = epoch /\ job' = job
  <2>1. DOMAIN ui' = DOMAIN ui /\ ui'.state = "error"
    BY <1>0, <1>2
  <2>2. ShownOk(ui', job)
    BY <1>0, <2>1 DEF ShownOk
  <2>3. \A i \in Jobs : LaunchOk(i, job[i], epoch, ui')
    BY <1>0, <1>1 DEF LaunchOk
  <2> QED BY <1>0, <1>1, <1>2, <2>2, <2>3 DEF ExportInv
<1>3. CASE /\ f = ui.request /\ epoch' = epoch + 1
           /\ ui' = [ui EXCEPT !.state = "exporting", !.job = j]
           /\ job' = [Export!Stop(job) EXCEPT ![j].pc = "name", ![j].epoch = epoch', ![j].request = f]
  <2> DEFINE r == Export!Stop(job)[j]
             n == [r EXCEPT !.pc = "name", !.epoch = epoch', !.request = f]
  <2>1. /\ JobOk(r, session) /\ DOMAIN Export!Stop(job) = Jobs /\ r.pc = "new"
    BY <1>1, StoppedOk
  <2>2. job' = [Export!Stop(job) EXCEPT ![j] = n]
    BY <1>3
  <2>3. DOMAIN job' = Jobs /\ job'[j] = n /\ \A i \in Jobs : i # j => job'[i] = Export!Stop(job)[i]
    BY <2>1, <2>2
  <2>4. /\ DOMAIN ui' = DOMAIN ui /\ ui'.state = "exporting" /\ ui'.job = j /\ ui'.request = ui.request
    BY <1>0, <1>3
  <2>5. JobOk(n, session) /\ LaunchOk(j, n, epoch', ui')
    <3> HIDE DEF r
    <3>1. /\ DOMAIN n = DOMAIN r /\ n.pc = "name" /\ n.epoch = epoch' /\ n.request = f
          /\ n.outcome = r.outcome /\ n.document = r.document
      BY <2>1 DEF JobOk, JobFields
    <3> HIDE DEF n
    <3>2. JobOk(n, session)
      BY <2>1, <3>1 DEF JobOk
    <3>3. LaunchOk(j, n, epoch', ui')
      BY <1>0, <1>3, <2>4, <3>1 DEF LaunchOk
    <3> QED BY <3>2, <3>3
  <2> HIDE DEF n
  <2>6. ASSUME NEW i \in Jobs, i # j PROVE JobOk(job'[i], session) /\ LaunchOk(i, job'[i], epoch', ui')
    <3>1. /\ JobOk(job'[i], session) /\ job'[i].pc = job[i].pc /\ job'[i].epoch = job[i].epoch
      BY <2>3, <2>6, StoppedOk
    <3>2. LaunchOk(i, job[i], epoch, ui)
      BY <1>0
    <3> QED BY <1>0, <1>3, <3>1, <3>2 DEF LaunchOk
  <2>7. ShownOk(ui', job')
    BY <1>0, <2>4 DEF ShownOk
  <2>8. \A i \in Jobs : JobOk(job'[i], session) /\ LaunchOk(i, job'[i], epoch', ui')
    BY <2>3, <2>5, <2>6
  <2> QED BY <1>0, <1>1, <1>3, <2>3, <2>7, <2>8 DEF ExportInv
<1> QED BY <1>2, <1>3 DEF Export!OnDestinationSelected

LEMMA ScreenKeeps ==
  ASSUME ExportInv,
         Export!OnDestinationPickerCancelled \/ Export!DismissStatus
  PROVE  ExportInv'
<1>0. /\ SessionOk(session) /\ epoch \in Nat /\ DOMAIN job = Jobs /\ ShownOk(ui, job)
      /\ \A i \in Jobs : JobOk(job[i], session) /\ LaunchOk(i, job[i], epoch, ui)
      /\ DOMAIN ui = {"state", "request", "job", "exported"}
  BY DEF ExportInv, ShownOk
<1>1. /\ ui' = [ui EXCEPT !.state = "idle"] /\ epoch' \in {epoch, epoch + 1}
      /\ session' = session /\ job' = job /\ ui.state # "exporting"
  BY DEF Export!OnDestinationPickerCancelled, Export!DismissStatus
<1>2. DOMAIN ui' = DOMAIN ui /\ ui'.state = "idle"
  BY <1>0, <1>1
<1>3. ShownOk(ui', job)
  BY <1>0, <1>2 DEF ShownOk
<1>4. ASSUME NEW i \in Jobs PROVE LaunchOk(i, job[i], epoch', ui')
  <2>1. LaunchOk(i, job[i], epoch, ui)
    BY <1>0
  <2> QED BY <1>0, <1>1, <2>1 DEF LaunchOk
<1>5. epoch' \in Nat
  BY <1>0, <1>1
<1> QED BY <1>0, <1>1, <1>3, <1>4, <1>5 DEF ExportInv

LEMMA ExportInductive ==
  /\ Export!Init => ExportInv
  /\ ExportInv /\ [Export!Next]_(Export!vars) => ExportInv'
<1>1. ASSUME Export!Init PROVE ExportInv
  <2>1. /\ epoch = 0 /\ job = [j \in Jobs |-> Export!NoJob]
        /\ ui = [state |-> "idle", request |-> None, job |-> None, exported |-> None]
        /\ \E f \in ExportFrames : session = [current |-> f, generation |-> 1, prepared |-> None]
    BY <1>1 DEF Export!Init
  <2>2. SessionOk(session) /\ ShownOk(ui, job)
    BY <2>1 DEF SessionOk, ShownOk
  <2>3. /\ DOMAIN Export!NoJob = JobFields /\ Export!NoJob.pc = "new" /\ Export!NoJob.outcome = "none"
        /\ Export!NoJob.document = "none"
    BY DEF Export!NoJob, JobFields
  <2>4. JobOk(Export!NoJob, session) /\ \A j \in Jobs : LaunchOk(j, Export!NoJob, epoch, ui)
    BY <2>3 DEF JobOk, LaunchOk
  <2>5. DOMAIN job = Jobs /\ \A j \in Jobs : job[j] = Export!NoJob
    BY <2>1
  <2> QED BY <2>1, <2>2, <2>4, <2>5 DEF ExportInv
<1>2. ASSUME ExportInv, Export!Next PROVE ExportInv'
  <2>0. SessionOk(session) /\ DOMAIN ui = {"state", "request", "job", "exported"}
    BY <1>2 DEF ExportInv, ShownOk
  <2>1. ASSUME NEW n \in Navs, Export!Navigate(n) PROVE ExportInv'
    <3>1. job' = job /\ ui' = ui /\ epoch' = epoch
      BY <2>1 DEF Export!Navigate
    <3>2. Follows(session, session')
      <4>1. session' = session \/ \E f : Export!SetCurrentFrame(f)
        BY <2>1 DEF Export!Navigate
      <4> QED BY <1>2, <2>0, <4>1, StaysFollows, SetCurrentFollows
    <3> QED BY <1>2, <3>1, <3>2, SessionMoves
  <2>2. CASE Export!LoadFrame
    BY <1>2, <2>0, <2>2, PrepareFollows, SessionMoves DEF Export!LoadFrame
  <2>3. ASSUME NEW f, Export!BeginCurrentFrameExport(f) PROVE ExportInv'
    <3> DEFINE u == [state |-> "awaiting", request |-> f, job |-> None, exported |-> None]
    <3>1. Export!CancelWork(u) /\ DOMAIN u = {"state", "request", "job", "exported"} /\ u.state = "awaiting"
      BY <2>3 DEF Export!BeginCurrentFrameExport
    <3> HIDE DEF u
    <3> QED BY <1>2, <3>1, CancelWorkKeeps
  <2>4. CASE Export!CancelForMicroscopeChange
    <3> DEFINE u == [ui EXCEPT !.state = "idle"]
    <3>1. Export!CancelWork(u) /\ DOMAIN u = {"state", "request", "job", "exported"} /\ u.state = "idle"
      BY <2>0, <2>4 DEF Export!CancelForMicroscopeChange
    <3> HIDE DEF u
    <3> QED BY <1>2, <3>1, CancelWorkKeeps
  <2>5. ASSUME NEW j \in Jobs, Export!ExportStep(j) PROVE ExportInv'
    BY <1>2, <2>5, EarlySteps, NativeSteps, LateSteps, DeliverMoves DEF Export!ExportStep
  <2> QED BY <1>2, <2>1, <2>2, <2>3, <2>4, <2>5, SelectedKeeps, ScreenKeeps DEF Export!Next
<1>3. ASSUME ExportInv, UNCHANGED Export!vars PROVE ExportInv'
  BY <1>3 DEF ExportInv, Export!vars
<1> QED BY <1>1, <1>2, <1>3

(***************************************************************************)
(* For any number of exports, navigations and frames: a document that is   *)
(* kept holds the pixels of the frame in its name, although the frame is   *)
(* read at four moments without a common lock, and a success on the screen *)
(* is for the frame that was asked for (copy_prepared_frame,               *)
(* exportCurrentFrame, onDestinationSelected).                             *)
(***************************************************************************)
THEOREM ExportedImageIsAlwaysExact == Export!Spec => []ExportedImageIsExact
<1>1. ExportInv => ExportedImageIsExact
  <2> SUFFICES ASSUME ExportInv PROVE Export!KeptImageIsItsFrame /\ Export!ShownExportIsRequested
    BY DEF ExportedImageIsExact
  <2>1. \A j \in Jobs : JobOk(job[j], session)
    BY DEF ExportInv
  <2>2. Export!KeptImageIsItsFrame
    BY <2>1 DEF JobOk, Export!KeptImageIsItsFrame
  <2>3. Export!ShownExportIsRequested
    <3> SUFFICES ASSUME ui.state = "success"
                 PROVE  /\ ui.exported = ui.request
                        /\ job[ui.job].document = "kept" /\ job[ui.job].pixels = ui.request
      BY DEF Export!ShownExportIsRequested
    <3>1. /\ ui.job \in Jobs /\ job[ui.job].pc = "done" /\ job[ui.job].outcome = "ok"
          /\ ui.exported = ui.request /\ job[ui.job].prepared = ui.request
      BY DEF ExportInv, ShownOk
    <3> QED BY <2>1, <3>1 DEF JobOk
  <2> QED BY <2>2, <2>3
<1> QED BY <1>1, ExportInductive, PTL DEF Export!Spec

(***************************************************************************)
(* Progress of an index.  The coverage of a state is that of the sampled   *)
(* timestamps, and the counter follows the frames because a sample is due  *)
(* at the last row to reconcile and at the first one behind it.            *)
(***************************************************************************)
Times == Int \cup {None}

\* A state is of its samples, and a client accepts it.
StateOk(s, seen, now) ==
  /\ s.indexed \in Nat /\ s.reused \in Nat /\ s.expected \in Nat
  /\ s.reused <= s.indexed \/ s.reused <= s.expected
  /\ now \in Nat /\ s.sampledAt \in 0 .. now /\ s.worked \in 0 .. now
  /\ s.first \in Times /\ s.max \in Times /\ s.current \in Times
  /\ seen \subseteq Int
  /\ s.current # None => s.current \in seen
  /\ seen = {} => s.first = None /\ s.max = None
  /\ seen # {} => /\ s.max \in seen /\ s.first \in seen
                  /\ \A t \in seen : s.first <= t /\ t <= s.max

Samples ==
  [stage : {"checking", "reusing", "validating", "indexing", "finalizing", "rebuilding"},
   indexed : Nat, reused : Nat, expected : Nat, current : Times]

SampleOk(p) ==
  /\ p \in Samples
  /\ p.reused <= p.indexed \/ p.reused <= p.expected

LEMMA EmitKeeps ==
  ASSUME NEW p, SampleOk(p), StateOk(state, sampled, clock), Progress!Emit(p)
  PROVE  /\ StateOk(state', sampled', clock)
         /\ state'.stage = p.stage /\ state'.indexed = p.indexed /\ state'.reused = p.reused
         /\ state'.current = p.current
<1> DEFINE base == Progress!Coverage(p)
           old == IF p.stage = "rebuilding" THEN {} ELSE sampled
           first == IF p.current = None THEN base.first ELSE Progress!MinOf(base.first, p.current)
           max == IF p.current = None THEN base.max ELSE Progress!MaxOf(base.max, p.current)
           seen == old \cup IF p.current = None THEN {} ELSE {p.current}
<1>0. None \notin Int
  BY ProgressAssumption
<1>p. /\ p.indexed \in Nat /\ p.reused \in Nat /\ p.expected \in Nat /\ p.current \in Times
      /\ p.reused <= p.indexed \/ p.reused <= p.expected
  BY DEF SampleOk, Samples
<1>1. sampled' = seen
  BY DEF Progress!Emit
<1>2. /\ state'.stage = p.stage /\ state'.indexed = p.indexed /\ state'.reused = p.reused
      /\ state'.expected = p.expected /\ state'.current = p.current
      /\ state'.first = first /\ state'.max = max /\ state'.sampledAt = clock
      /\ state'.worked \in {clock, state.worked}
  BY DEF Progress!Emit, Progress!Updated
<1>3. /\ old \subseteq Int /\ base.first \in Times /\ base.max \in Times
      /\ old = {} => base.first = None /\ base.max = None
      /\ old # {} => /\ base.max \in old /\ base.first \in old
                     /\ \A t \in old : base.first <= t /\ t <= base.max
  <2>1. CASE p.stage = "rebuilding"
    <3>1. old = {} /\ base.first = None /\ base.max = None
      BY <2>1 DEF Progress!Coverage
    <3> HIDE DEF old, base
    <3> QED BY <3>1 DEF Times
  <2>2. CASE p.stage # "rebuilding"
    <3>1. old = sampled /\ base.first = state.first /\ base.max = state.max
      BY <2>2 DEF Progress!Coverage
    <3> HIDE DEF old, base
    <3> QED BY <3>1 DEF StateOk
  <2> QED BY <2>1, <2>2
<1> HIDE DEF old, base
<1>4. /\ first \in Times /\ max \in Times /\ seen \subseteq Int
      /\ p.current # None => p.current \in seen
      /\ seen = {} => first = None /\ max = None
      /\ seen # {} => /\ max \in seen /\ first \in seen
                      /\ \A t \in seen : first <= t /\ t <= max
  <2>1. CASE p.current = None
    BY <1>3, <2>1
  <2>2. CASE p.current # None /\ old = {}
    <3>1. p.current \in Int /\ first = p.current /\ max = p.current /\ seen = {p.current}
      BY <1>p, <1>3, <2>2 DEF Times, Progress!MinOf, Progress!MaxOf
    <3> HIDE DEF first, max, seen
    <3> QED BY <3>1 DEF Times
  <2>3. CASE p.current # None /\ old # {}
    <3>1. p.current \in Int /\ base.first \in Int /\ base.max \in Int /\ seen = old \cup {p.current}
      BY <1>p, <1>3, <2>3 DEF Times
    <3>2. /\ first = IF p.current < base.first THEN p.current ELSE base.first
          /\ max = IF p.current > base.max THEN p.current ELSE base.max
      BY <1>0, <2>3, <3>1 DEF Progress!MinOf, Progress!MaxOf
    <3>3. first \in Int /\ max \in Int /\ first \in seen /\ max \in seen /\ seen \subseteq Int
      BY <1>3, <2>3, <3>1, <3>2
    <3>4. ASSUME NEW t \in seen PROVE first <= t /\ t <= max
      <4>1. t \in Int /\ (t = p.current \/ (t \in old /\ base.first <= t /\ t <= base.max))
        BY <1>3, <2>3, <3>1
      <4>2. base.first <= base.max
        BY <1>3, <2>3
      <4> HIDE DEF first, max, seen
      <4> QED BY <3>1, <3>2, <4>1, <4>2
    <3> HIDE DEF first, max, seen
    <3> QED BY <2>3, <3>1, <3>3, <3>4 DEF Times
  <2> QED BY <2>1, <2>2, <2>3
<1>5. clock \in Nat /\ state'.sampledAt \in 0 .. clock /\ state'.worked \in 0 .. clock
  BY <1>2 DEF StateOk
<1> HIDE DEF first, max, seen
<1>6. StateOk(state', sampled', clock)
  BY <1>p, <1>1, <1>2, <1>4, <1>5 DEF StateOk
<1> QED BY <1>2, <1>6

Active == {"bounded", "replay", "rebuild"}

BuildOk ==
  /\ existing \in Nat /\ start \in Nat /\ frame \in Nat
  /\ attempt \in Active \cup {"probe", "done"}
  /\ start <= existing
  /\ attempt \in Active /\ ~emitted => frame = start
  /\ attempt \in {"replay", "rebuild"} => start = 0

\* Where the counter and the frames stand in an attempt from the stream start.
WorkOk ==
  attempt \in {"replay", "rebuild"} /\ emitted =>
    \/ /\ state.stage = "validating" /\ state.indexed = existing /\ counted = state.reused
       /\ frame <= existing /\ state.reused <= frame
       /\ frame = existing => state.reused = existing
    \/ /\ state.stage = "indexing" /\ counted = state.indexed /\ state.indexed <= frame
       /\ frame > existing \/ existing = 0

ProgressInv == StateOk(state, sampled, clock) /\ BuildOk /\ WorkOk

LEMMA SampleIsOk ==
  ASSUME NEW stage \in {"checking", "reusing", "validating", "indexing", "finalizing", "rebuilding"},
         NEW i \in Nat, NEW r \in Nat, NEW e \in Nat, r <= i \/ r <= e, NEW c \in Times
  PROVE  /\ SampleOk(Progress!Sample(stage, i, r, e, c))
         /\ Progress!Sample(stage, i, r, e, c).stage = stage
         /\ Progress!Sample(stage, i, r, e, c).indexed = i
         /\ Progress!Sample(stage, i, r, e, c).reused = r
BY DEF SampleOk, Samples, Progress!Sample

\* What a sample leaves behind.
LEMMA EmitSample ==
  ASSUME ProgressInv,
         NEW stage \in {"checking", "reusing", "validating", "indexing", "finalizing", "rebuilding"},
         NEW i \in Nat, NEW r \in Nat, NEW e \in Nat, r <= i \/ r <= e, NEW c \in Times,
         Progress!Emit(Progress!Sample(stage, i, r, e, c))
  PROVE  /\ StateOk(state', sampled', clock)
         /\ state'.stage = stage /\ state'.indexed = i /\ state'.reused = r
<1> DEFINE p == Progress!Sample(stage, i, r, e, c)
<1>1. SampleOk(p) /\ p.stage = stage /\ p.indexed = i /\ p.reused = r
  BY SampleIsOk
<1>2. Progress!Emit(p)
  OBVIOUS
<1>3. StateOk(state, sampled, clock)
  BY DEF ProgressInv
<1> HIDE DEF p
<1>4. /\ StateOk(state', sampled', clock)
      /\ state'.stage = p.stage /\ state'.indexed = p.indexed /\ state'.reused = p.reused
  BY <1>1, <1>2, <1>3, EmitKeeps
<1> QED BY <1>1, <1>4

\* A new attempt has sampled nothing.
LEMMA EnterKeeps ==
  ASSUME NEW kind \in Active, NEW rows \in Nat, NEW at \in Nat, at <= rows,
         kind \in {"replay", "rebuild"} => at = 0, Progress!Enter(kind, rows, at)
  PROVE  BuildOk' /\ ~emitted'
<1>1. attempt' = kind /\ existing' = rows /\ start' = at /\ frame' = at
  BY DEF Progress!Enter
<1>2. ~emitted'
  BY Zenon DEF Progress!Enter
<1>3. BuildOk'
  BY <1>1 DEF BuildOk
<1> QED BY <1>2, <1>3

LEMMA TimeFacts == \A t \in Timestamps \cup {None} : t \in Times
BY ProgressAssumption DEF Times

LEMMA ProbeSteps ==
  ASSUME ProgressInv, Progress!Check \/ Progress!Reuse \/ Progress!Begin
  PROVE  ProgressInv'
<1>0. BuildOk /\ StateOk(state, sampled, clock) /\ attempt = "probe" /\ clock' = clock
  BY DEF ProgressInv, Progress!Check, Progress!Reuse, Progress!Begin
<1>1. existing \in Nat /\ state.current \in Times /\ None \in Times
  BY <1>0 DEF BuildOk, StateOk, Times
<1>2. CASE Progress!Check
  <2>1. PICK tail \in Timestamps \cup {None} :
          Progress!Emit(Progress!Sample("checking", existing, 0, existing, IF existing = 0 THEN None ELSE tail))
    BY <1>2 DEF Progress!Check
  <2>2. (IF existing = 0 THEN None ELSE tail) \in Times
    BY <1>1, TimeFacts
  <2>3. StateOk(state', sampled', clock)
    BY <1>1, <2>1, <2>2, EmitSample
  <2>4. BuildOk' /\ WorkOk'
    BY <1>0, <1>2 DEF BuildOk, WorkOk, Progress!Check, Active
  <2> QED BY <1>0, <2>3, <2>4 DEF ProgressInv
<1>3. CASE Progress!Reuse
  <2>1. PICK stage \in {"finalizing", "reusing"} :
          Progress!Emit(Progress!Sample(stage, existing, existing, existing, state.current))
    BY <1>3 DEF Progress!Reuse
  <2>2. StateOk(state', sampled', clock)
    BY <1>1, <2>1, EmitSample
  <2>3. BuildOk' /\ WorkOk'
    BY <1>0, <1>3 DEF BuildOk, WorkOk, Progress!Reuse, Active
  <2> QED BY <1>0, <2>2, <2>3 DEF ProgressInv
<1>4. CASE Progress!Begin
  <2>1. UNCHANGED <<state, sampled, counted>>
    BY <1>4 DEF Progress!Begin, Progress!Silent
  <2>2. BuildOk' /\ ~emitted'
    <3>1. CASE Progress!Enter("replay", existing, 0)
      BY <1>1, <3>1, EnterKeeps DEF Active
    <3>2. ASSUME NEW checkpoint \in 0 .. existing - 1, Progress!Enter("bounded", existing, checkpoint)
          PROVE  BuildOk' /\ ~emitted'
      <4>1. checkpoint \in Nat /\ checkpoint <= existing
        BY <1>1
      <4> QED BY <1>1, <3>2, <4>1, EnterKeeps DEF Active
    <3> QED BY <1>4, <3>1, <3>2 DEF Progress!Begin
  <2> QED BY <1>0, <2>1, <2>2 DEF ProgressInv, WorkOk
<1> QED BY <1>2, <1>3, <1>4

LEMMA FirstKeeps ==
  ASSUME ProgressInv, Progress!First
  PROVE  ProgressInv'
<1>0. /\ BuildOk /\ StateOk(state, sampled, clock) /\ clock' = clock /\ None \in Times
      /\ existing \in Nat /\ start \in Nat /\ start <= existing /\ frame = start
      /\ attempt \in {"replay", "rebuild"} => start = 0
      /\ existing' = existing /\ attempt' = attempt /\ start' = start /\ frame' = frame
      /\ emitted' = TRUE /\ counted' = 0 /\ attempt \in Active
  BY DEF ProgressInv, Progress!First, BuildOk, Times, Active
<1>1. BuildOk'
  BY <1>0 DEF BuildOk
<1>2. CASE existing > 0
  <2>1. Progress!Emit(Progress!Sample("validating", existing, start, existing, None))
    BY <1>2 DEF Progress!First
  <2>2. /\ StateOk(state', sampled', clock)
        /\ state'.stage = "validating" /\ state'.indexed = existing /\ state'.reused = start
    BY <1>0, <2>1, EmitSample
  <2> QED BY <1>0, <1>1, <1>2, <2>2 DEF ProgressInv, WorkOk
<1>3. CASE ~(existing > 0)
  <2>1. Progress!Emit(Progress!Sample("indexing", 0, 0, 0, None))
    BY <1>3 DEF Progress!First
  <2>2. /\ StateOk(state', sampled', clock)
        /\ state'.stage = "indexing" /\ state'.indexed = 0 /\ state'.reused = 0
    BY <1>0, <2>1, EmitSample
  <2> QED BY <1>0, <1>1, <1>3, <2>2 DEF ProgressInv, WorkOk
<1> QED BY <1>2, <1>3

LEMMA DecodeKeeps ==
  ASSUME ProgressInv, Progress!Decode
  PROVE  ProgressInv'
<1>0. /\ BuildOk /\ StateOk(state, sampled, clock) /\ WorkOk /\ clock' = clock
      /\ existing \in Nat /\ frame \in Nat /\ attempt \in Active /\ emitted
      /\ existing' = existing /\ attempt' = attempt /\ start' = start /\ frame' = frame + 1
      /\ emitted' = emitted
  BY DEF ProgressInv, Progress!Decode, BuildOk, Active
<1>1. BuildOk'
  BY <1>0 DEF BuildOk
<1>2. CASE Progress!Due(frame + 1)
  <2>1. PICK ts \in Timestamps \cup {None} :
          /\ Progress!Emit(Progress!Processed(frame + 1, ts))
          /\ counted' = counted + Progress!Advance(Progress!Processed(frame + 1, ts))
    BY <1>2 DEF Progress!Decode
  <2>2. ts \in Times
    BY TimeFacts
  <2>3. CASE frame + 1 <= existing
    <3> DEFINE p == Progress!Sample("validating", existing, frame + 1, existing, ts)
    <3>1. Progress!Processed(frame + 1, ts) = p
      BY <2>3 DEF Progress!Processed
    <3>2. /\ StateOk(state', sampled', clock)
          /\ state'.stage = "validating" /\ state'.indexed = existing /\ state'.reused = frame + 1
      BY <1>0, <2>1, <2>2, <2>3, <3>1, EmitSample
    <3>3. p.stage = "validating" /\ p.reused = frame + 1
      BY DEF Progress!Sample
    <3>4. attempt \in {"replay", "rebuild"} => counted' = frame + 1
      <4>1. SUFFICES ASSUME attempt \in {"replay", "rebuild"} PROVE counted' = frame + 1
        OBVIOUS
      <4>2. counted = state.reused /\ state.reused <= frame /\ state.reused \in Nat
        BY <1>0, <2>3, <4>1 DEF WorkOk, StateOk
      <4> HIDE DEF p
      <4>3. Progress!Advance(p) = frame + 1 - state.reused
        BY <1>0, <3>3, <4>2 DEF Progress!Advance
      <4> QED BY <1>0, <2>1, <3>1, <4>2, <4>3
    <3>5. WorkOk'
      BY <1>0, <2>3, <3>2, <3>4 DEF WorkOk
    <3> QED BY <1>0, <1>1, <3>2, <3>5 DEF ProgressInv
  <2>4. CASE ~(frame + 1 <= existing)
    <3> DEFINE p == Progress!Sample("indexing", frame + 1, existing, existing, ts)
    <3>1. Progress!Processed(frame + 1, ts) = p
      BY <2>4 DEF Progress!Processed
    <3>2. /\ StateOk(state', sampled', clock)
          /\ state'.stage = "indexing" /\ state'.indexed = frame + 1 /\ state'.reused = existing
      BY <1>0, <2>1, <2>2, <2>4, <3>1, EmitSample
    <3>3. p.stage = "indexing" /\ p.indexed = frame + 1
      BY DEF Progress!Sample
    <3>4. attempt \in {"replay", "rebuild"} => counted' = frame + 1
      <4>1. SUFFICES ASSUME attempt \in {"replay", "rebuild"} PROVE counted' = frame + 1
        OBVIOUS
      <4>2. counted = state.indexed /\ state.indexed <= frame /\ state.indexed \in Nat
        BY <1>0, <2>4, <4>1 DEF WorkOk, StateOk
      <4> HIDE DEF p
      <4>3. Progress!Advance(p) = frame + 1 - state.indexed
        BY <1>0, <3>3, <4>2 DEF Progress!Advance
      <4> QED BY <1>0, <2>1, <3>1, <4>2, <4>3
    <3>5. WorkOk'
      BY <1>0, <2>4, <3>2, <3>4 DEF WorkOk
    <3> QED BY <1>0, <1>1, <3>2, <3>5 DEF ProgressInv
  <2> QED BY <2>3, <2>4
<1>3. CASE ~Progress!Due(frame + 1)
  <2>1. UNCHANGED <<state, sampled, counted>>
    BY <1>3 DEF Progress!Decode, Progress!Silent
  <2>2. frame + 1 # existing /\ frame + 1 # existing + 1
    BY <1>3 DEF Progress!Due
  <2>3. WorkOk'
    <3>1. CASE attempt \notin {"replay", "rebuild"}
      BY <1>0, <3>1 DEF WorkOk
    <3>2. CASE attempt \in {"replay", "rebuild"}
      <4>1. state' = state /\ counted' = counted
        BY <2>1
      <4>2. \/ /\ state.stage = "validating" /\ state.indexed = existing /\ counted = state.reused
               /\ frame <= existing /\ state.reused <= frame
               /\ frame = existing => state.reused = existing
            \/ /\ state.stage = "indexing" /\ counted = state.indexed /\ state.indexed <= frame
               /\ frame > existing \/ existing = 0
        BY <1>0, <3>2 DEF WorkOk
      <4>3. state.reused \in Nat /\ state.indexed \in Nat
        BY <1>0 DEF StateOk
      <4> QED BY <1>0, <2>2, <4>1, <4>2, <4>3 DEF WorkOk
    <3> QED BY <3>1, <3>2
  <2> QED BY <1>0, <1>1, <2>1, <2>3 DEF ProgressInv
<1> QED BY <1>2, <1>3

LEMMA EndingSteps ==
  ASSUME ProgressInv, Progress!Finish \/ Progress!Mismatch
  PROVE  ProgressInv'
<1>0. /\ BuildOk /\ StateOk(state, sampled, clock) /\ clock' = clock /\ None \in Times
      /\ existing \in Nat /\ frame \in Nat
  BY DEF ProgressInv, Progress!Finish, Progress!Mismatch, BuildOk, Times
<1>1. CASE Progress!Finish
  <2>1. PICK ts \in Timestamps \cup {None} :
          Progress!Emit(Progress!Sample("finalizing", frame, existing, existing, IF frame = start THEN None ELSE ts))
    BY <1>1 DEF Progress!Finish
  <2>2. (IF frame = start THEN None ELSE ts) \in Times
    BY <1>0, TimeFacts
  <2>3. StateOk(state', sampled', clock)
    BY <1>0, <2>1, <2>2, EmitSample
  <2>4. BuildOk' /\ WorkOk'
    BY <1>0, <1>1 DEF BuildOk, WorkOk, Progress!Finish, Active
  <2> QED BY <1>0, <2>3, <2>4 DEF ProgressInv
<1>2. CASE Progress!Mismatch
  <2>1. BuildOk' /\ ~emitted'
    <3>1. Progress!Enter("replay", existing, 0) \/ Progress!Enter("rebuild", 0, 0)
      BY <1>2 DEF Progress!Mismatch
    <3> QED BY <1>0, <3>1, EnterKeeps DEF Active
  <2>2. StateOk(state', sampled', clock)
    <3>1. CASE attempt = "bounded"
      BY <1>0, <1>2, <3>1 DEF Progress!Mismatch, Progress!Silent
    <3>2. CASE attempt # "bounded"
      <4>1. Progress!Emit(Progress!Sample("rebuilding", 0, 0, 0, None))
        BY <1>2, <3>2 DEF Progress!Mismatch
      <4> QED BY <1>0, <4>1, EmitSample
    <3> QED BY <3>1, <3>2
  <2> QED BY <1>0, <2>1, <2>2 DEF ProgressInv, WorkOk
<1> QED BY <1>1, <1>2

LEMMA ProgressInductive ==
  /\ Progress!Init => ProgressInv
  /\ ProgressInv /\ [Progress!Next]_(Progress!vars) => ProgressInv'
<1>1. ASSUME Progress!Init PROVE ProgressInv
  <2>1. /\ state.indexed = 0 /\ state.reused = 0 /\ state.expected = 0 /\ state.first = None
        /\ state.current = None /\ state.max = None /\ state.sampledAt = 0 /\ state.worked = 0
        /\ sampled = {} /\ clock = 0
    BY <1>1 DEF Progress!Init, Progress!Began
  <2>2. StateOk(state, sampled, clock)
    BY <2>1 DEF StateOk, Times
  <2>3. existing \in Nat /\ attempt = "probe" /\ start = 0 /\ frame = 0
    BY <1>1, ProgressAssumption DEF Progress!Init
  <2>4. BuildOk /\ WorkOk
    BY <2>3 DEF BuildOk, WorkOk, Active
  <2> QED BY <2>2, <2>4 DEF ProgressInv
<1>2. ASSUME ProgressInv, Progress!Tick PROVE ProgressInv'
  <2>1. UNCHANGED <<existing, attempt, start, frame, emitted, state, sampled, counted>> /\ clock' = clock + 1
    BY <1>2 DEF Progress!Tick, Progress!build
  <2>2. StateOk(state, sampled, clock')
    BY <1>2, <2>1 DEF ProgressInv, StateOk
  <2>3. BuildOk' /\ WorkOk'
    BY <1>2, <2>1 DEF ProgressInv, BuildOk, WorkOk
  <2> QED BY <2>1, <2>2, <2>3 DEF ProgressInv
<1>3. ASSUME ProgressInv, UNCHANGED Progress!vars PROVE ProgressInv'
  BY <1>3 DEF ProgressInv, BuildOk, WorkOk, Progress!vars, Progress!build
<1> QED BY <1>1, <1>2, <1>3, ProbeSteps, FirstKeeps, DecodeKeeps, EndingSteps DEF Progress!Next

(***************************************************************************)
(* For sources of any length, any interval of samples and any timestamps:  *)
(* whenever the client polls, it accepts what it reads, the coverage is    *)
(* that of the samples since the last rebuild began, and throughput adds   *)
(* up to the frames decoded (update_progress, emit_progress, isSane).      *)
(***************************************************************************)
THEOREM ProgressIsAlwaysTruthful == Progress!Spec => []ProgressIsTruthful
<1>1. ProgressInv => ProgressIsTruthful
  <2> SUFFICES ASSUME ProgressInv
               PROVE  Progress!EverySampleIsAccepted /\ Progress!CoverageIsOwn /\ Progress!WorkIsCounted
    BY DEF ProgressIsTruthful
  <2>0. StateOk(state, sampled, clock) /\ None \notin Int
    BY ProgressAssumption DEF ProgressInv
  <2>1. Progress!CoverageIsOwn
    BY <2>0 DEF StateOk, Progress!CoverageIsOwn
  <2>2. Progress!EverySampleIsAccepted
    BY <2>0 DEF StateOk, Times, Progress!EverySampleIsAccepted, Progress!IsSane
  <2>3. Progress!WorkIsCounted
    BY DEF ProgressInv, WorkOk, Progress!WorkIsCounted
  <2> QED BY <2>1, <2>2, <2>3
<1> QED BY <1>1, ProgressInductive, PTL DEF Progress!Spec

(***************************************************************************)
(* Similarity search.  A store may be of another version, cut short or     *)
(* damaged; what it cannot hold is a descriptor of something that the      *)
(* index of its key does not describe, since a frame is appended only      *)
(* after its comparison.  A load that finds as many fully indexed rows as  *)
(* the timeline has frames has then found all of them.                     *)
(***************************************************************************)
Count(s, g) == Len(Timeline[s, g])
Entry(s, g, f) == Timeline[s, g][f + 1]
RowOk(r, s, g) ==
  /\ r.frame \in 0 .. Count(s, g) - 1
  /\ r = [frame |-> r.frame, keys |-> r.keys, of |-> Entry(s, g, r.frame)]
RowsOk(rs, s, g) == \A r \in rs : RowOk(r, s, g)
WholeRows(s, g) ==
  {[frame |-> f, keys |-> Bands, of |-> Entry(s, g, f)] : f \in 0 .. Count(s, g) - 1}
StoreOk(d) ==
  /\ DOMAIN d = {"key", "state", "count", "rows"}
  /\ RowsOk(d.rows, d.key.stream, d.key.generation)
SearchOk(q, b) ==
  /\ DOMAIN q = {"pc", "target", "stream", "frames", "next", "pending", "file", "answer"}
  /\ q.stream \in SearchStreams /\ q.frames = Count(q.stream, b.generation)
  /\ q.pc = "frames" =>
       /\ q.next \in Nat /\ StoreOk(q.file)
       /\ q.file.key.stream = q.stream /\ q.file.key.generation = b.generation
       /\ RowsOk(q.pending, q.stream, b.generation)
  /\ q.pc = "answered" => q.answer = WholeRows(q.stream, b.generation)
  /\ q.pc = "begin" \/ q.pc = "load" => q.next = 0 /\ q.pending = {}
DiskOk(d) == DOMAIN d = Algorithms /\ \A a \in Algorithms : d[a] # None => StoreOk(d[a])

SearchInv ==
  /\ build.generation \in SearchGenerations /\ build.algorithm \in Algorithms
  /\ session # None => session \in SearchStreams
  /\ DiskOk(disk)
  /\ search # None => SearchOk(search, build)

LEMMA CountType == \A s \in SearchStreams, g \in SearchGenerations : Count(s, g) \in Nat
BY SearchAssumption, Zenon DEF Count

\* begin creates an empty store of the search's key.
LEMMA BeginSearchKeeps ==
  ASSUME SearchInv, Search!Begin
  PROVE  SearchInv'
<1> DEFINE e == Search!Created(Search!Key(search.stream))
<1>1. /\ search # None /\ search.pc = "begin" /\ SearchOk(search, build)
      /\ search' = [search EXCEPT !.pc = "frames", !.file = e]
      /\ build' = build /\ session' = session /\ disk' = disk
  BY DEF SearchInv, Search!Begin
<1>2. StoreOk(e) /\ e.key.stream = search.stream /\ e.key.generation = build.generation
  BY DEF StoreOk, RowsOk, Search!Created, Search!Key, Search!Store
<1> HIDE DEF e
<1>3. RowsOk({}, search.stream, build.generation)
  BY DEF RowsOk
<1>4. /\ DOMAIN search' = DOMAIN search /\ search'.pc = "frames" /\ search'.file = e
      /\ search'.stream = search.stream /\ search'.frames = search.frames
      /\ search'.next = 0 /\ search'.pending = {}
  <2>1. DOMAIN search = {"pc", "target", "stream", "frames", "next", "pending", "file", "answer"}
    BY <1>1 DEF SearchOk
  <2>2. search.next = 0 /\ search.pending = {}
    BY <1>1 DEF SearchOk
  <2> QED BY <1>1, <2>1, <2>2
<1>5. /\ StoreOk(search'.file) /\ search'.next \in Nat
      /\ search'.file.key.stream = search'.stream /\ search'.file.key.generation = build.generation
      /\ RowsOk(search'.pending, search'.stream, build.generation)
  BY <1>2, <1>3, <1>4
<1>6. SearchOk(search', build)
  BY <1>1, <1>4, <1>5 DEF SearchOk
<1> QED BY <1>1, <1>6 DEF SearchInv

\* flush_batch keeps the key and adds rows of it.
LEMMA FlushedIsOk ==
  ASSUME NEW e, StoreOk(e), NEW p, NEW s, NEW g,
         e.key.stream = s, e.key.generation = g, RowsOk(p, s, g)
  PROVE  /\ StoreOk(Search!Flushed(e, p))
         /\ Search!Flushed(e, p).key = e.key
<1>1. DOMAIN Search!Flushed(e, p) = DOMAIN e
  BY DEF Search!Flushed
<1>2. Search!Flushed(e, p).key = e.key /\ Search!Flushed(e, p).rows = e.rows \cup p
  BY DEF Search!Flushed, StoreOk
<1>3. RowsOk(e.rows \cup p, s, g)
  BY DEF StoreOk, RowsOk
<1> QED BY <1>1, <1>2, <1>3 DEF StoreOk

\* A frame is appended only when the index describes what was decoded.
LEMMA SearchFrameKeeps ==
  ASSUME SearchInv, Search!Frame
  PROVE  SearchInv'
<1> DEFINE x == search.next
           y == x + 1
           entry == Entry(search.stream, build.generation, x)
           row == [frame |-> x, keys |-> Bands, of |-> entry]
           more == search.pending \cup {row}
<1>1. /\ search # None /\ search.pc = "frames" /\ SearchOk(search, build) /\ x < search.frames
      /\ build' = build /\ session' = session /\ disk' = disk
  BY DEF SearchInv, Search!Frame
<1>2. \/ search' = None
      \/ search' = [search EXCEPT !.next = y, !.pending = more, !.file = search.file]
      \/ search' = [search EXCEPT !.next = y, !.pending = {}, !.file = Search!Flushed(search.file, more)]
  <2> SUFFICES ASSUME search' # None
               PROVE  \/ search' = [search EXCEPT !.next = y, !.pending = more, !.file = search.file]
                      \/ search' = [search EXCEPT !.next = y, !.pending = {},
                                                  !.file = Search!Flushed(search.file, more)]
    OBVIOUS
  <2>1. session = search.stream /\ Search!Entries(session)[y] = Search!NextFrame(y)
    BY Zenon DEF Search!Frame, Search!Fail, Search!Matches
  <2>2. Search!NextFrame(y) = entry
    BY <2>1, Zenon DEF Search!Entries, Entry
  <2> DEFINE full == Search!Cardinality(more) >= SearchBatch
  <2>3. search' = [search EXCEPT !.next = y, !.pending = IF full THEN {} ELSE more,
                                 !.file = IF full THEN Search!Flushed(@, more) ELSE @]
    <3> DEFINE decoded == Search!NextFrame(y)
               kept == search.pending \cup {[frame |-> x, keys |-> Bands, of |-> decoded]}
               batch == Search!Cardinality(kept) >= SearchBatch
    <3>1. search' = [search EXCEPT !.next = y, !.pending = IF batch THEN {} ELSE kept,
                                   !.file = IF batch THEN Search!Flushed(@, kept) ELSE @]
      BY Zenon DEF Search!Frame, Search!Fail
    <3>2. kept = more
      BY <2>2
    <3> QED BY <3>1, <3>2, Zenon
  <2> HIDE DEF y, more, full
  <2>4. CASE full
    BY <2>3, <2>4
  <2>5. CASE ~full
    BY <2>3, <2>5
  <2> QED BY <2>4, <2>5
<1>3. /\ x \in Nat /\ StoreOk(search.file) /\ search.stream \in SearchStreams
      /\ search.file.key.stream = search.stream /\ search.file.key.generation = build.generation
      /\ RowsOk(search.pending, search.stream, build.generation)
      /\ search.frames = Count(search.stream, build.generation)
      /\ build.generation \in SearchGenerations
  BY <1>1 DEF SearchOk, SearchInv
<1>4. RowOk(row, search.stream, build.generation) /\ y \in Nat
  <2>1. Count(search.stream, build.generation) \in Nat
    BY <1>3, CountType
  <2>2. x \in 0 .. Count(search.stream, build.generation) - 1
    <3> DEFINE m == Count(search.stream, build.generation)
    <3>1. m \in Nat /\ x \in Nat /\ x < m
      BY <1>1, <1>3, <2>1, Zenon
    <3> HIDE DEF m, x
    <3>2. x \in 0 .. m - 1
      BY <3>1
    <3> QED BY <3>2, Zenon DEF m
  <2> HIDE DEF x, entry
  <2>3. row.frame = x /\ row.keys = Bands /\ y \in Nat
    <3>1. x \in Nat
      BY <1>3, Zenon
    <3>2. y \in Nat
      BY <3>1
    <3> QED BY <3>2
  <2>4. row = [frame |-> row.frame, keys |-> row.keys, of |-> entry]
    BY <2>3
  <2> HIDE DEF row
  <2> QED BY <2>2, <2>3, <2>4 DEF RowOk, entry
<1> HIDE DEF x, y, row
<1>5. RowsOk(more, search.stream, build.generation)
  BY <1>3, <1>4 DEF RowsOk
<1>6. RowsOk({}, search.stream, build.generation)
  BY DEF RowsOk
<1> HIDE DEF more
<1>7. StoreOk(Search!Flushed(search.file, more)) /\ Search!Flushed(search.file, more).key = search.file.key
  BY <1>3, <1>5, FlushedIsOk
<1>8. search' # None => SearchOk(search', build)
  BY <1>1, <1>2, <1>3, <1>4, <1>5, <1>6, <1>7, Zenon DEF SearchOk
<1> QED BY <1>1, <1>8 DEF SearchInv

\* finish publishes rows of the search's key.
LEMMA SearchFinishKeeps ==
  ASSUME SearchInv, Search!Finish
  PROVE  SearchInv'
<1> DEFINE f == Search!Flushed(search.file, search.pending)
           d == [f EXCEPT !.state = "complete", !.count = search.next]
<1>1. /\ search # None /\ search.pc = "frames" /\ SearchOk(search, build) /\ DiskOk(disk)
      /\ build' = build /\ session' = session
      /\ build.algorithm \in Algorithms
  BY DEF SearchInv, Search!Finish
<1>2. \/ search' = None /\ disk' = disk
      \/ /\ search' = [search EXCEPT !.pc = "verify", !.pending = {}, !.file = None]
         /\ disk' = [disk EXCEPT ![build.algorithm] = d]
  BY DEF Search!Finish, Search!Put, Search!Fail
<1>3. StoreOk(f)
  BY <1>1, FlushedIsOk DEF SearchOk
<1> HIDE DEF f
<1>4. DOMAIN d = DOMAIN f /\ d.rows = f.rows /\ d.key = f.key
  BY <1>3 DEF StoreOk
<1>5. StoreOk(d)
  BY <1>3, <1>4 DEF StoreOk
<1> HIDE DEF d
<1>6. DiskOk(disk')
  BY <1>1, <1>2, <1>5 DEF DiskOk
<1>7. search' # None => SearchOk(search', build)
  BY <1>1, <1>2, Zenon DEF SearchOk
<1> QED BY <1>1, <1>6, <1>7 DEF SearchInv

\* Sessions, restarts, invalidation and damage.
LEMMA AroundSearchKeeps ==
  ASSUME SearchInv,
         \/ \E s \in SearchStreams : Search!OpenSession(s)
         \/ \E t \in 0 .. 1 : Search!FindSimilarFrames(t)
         \/ Search!Leave \/ Search!CloseSession \/ Search!InvalidateSource
         \/ Search!Restart \/ Search!Damage
  PROVE  SearchInv'
<1>1. ASSUME NEW s \in SearchStreams, Search!OpenSession(s) PROVE SearchInv'
  BY <1>1 DEF SearchInv, Search!OpenSession
<1>2. ASSUME NEW t \in 0 .. 1, Search!FindSimilarFrames(t) PROVE SearchInv'
  <2>1. /\ session \in SearchStreams
        /\ search' = [pc |-> "load", target |-> t, stream |-> session,
                      frames |-> Count(session, build.generation),
                      next |-> 0, pending |-> {}, file |-> None, answer |-> None]
        /\ build' = build /\ session' = session /\ disk' = disk
    BY <1>2, Zenon DEF SearchInv, Search!FindSimilarFrames, Search!Entries, Count
  <2>2. SearchOk(search', build)
    BY <2>1 DEF SearchOk
  <2> QED BY <2>1, <2>2 DEF SearchInv
<1>3. CASE Search!Leave
  BY <1>3 DEF SearchInv, Search!Leave, Search!Fail
<1>4. CASE Search!CloseSession
  BY <1>4 DEF SearchInv, Search!CloseSession
<1>5. CASE Search!InvalidateSource
  <2>1. DiskOk(disk')
    BY <1>5 DEF Search!InvalidateSource, DiskOk
  <2> QED BY <1>5, <2>1 DEF SearchInv, Search!InvalidateSource
<1>6. CASE Search!Restart
  BY <1>6 DEF SearchInv, Search!Restart
<1>7. CASE Search!Damage
  <2>1. PICK a \in Algorithms : disk[a] # None /\ \E r \in disk[a].rows :
          disk' = [disk EXCEPT ![a].rows =
                     (@ \ {r}) \cup (IF r.keys = Bands THEN {[r EXCEPT !.keys = Bands - 1]} ELSE {})]
    BY <1>7, Zenon DEF Search!Damage
  <2>2. PICK r \in disk[a].rows :
          disk' = [disk EXCEPT ![a].rows =
                     (@ \ {r}) \cup (IF r.keys = Bands THEN {[r EXCEPT !.keys = Bands - 1]} ELSE {})]
    BY <2>1, Zenon
  <2> DEFINE broken == (disk[a].rows \ {r}) \cup (IF r.keys = Bands THEN {[r EXCEPT !.keys = Bands - 1]} ELSE {})
             s == disk[a].key.stream
             g == disk[a].key.generation
             d == [disk[a] EXCEPT !.rows = broken]
  <2>3. StoreOk(disk[a]) /\ DiskOk(disk)
    BY <2>1 DEF SearchInv, DiskOk
  <2>4. RowOk([r EXCEPT !.keys = Bands - 1], s, g)
    <3> DEFINE w == [r EXCEPT !.keys = Bands - 1]
               fewer == Bands - 1
    <3>1. /\ r.frame \in 0 .. Count(s, g) - 1
          /\ r = [frame |-> r.frame, keys |-> r.keys, of |-> Entry(s, g, r.frame)]
      BY <2>3 DEF StoreOk, RowsOk, RowOk
    <3> DEFINE entry == Entry(s, g, r.frame)
    <3> HIDE DEF fewer, entry
    <3>2. r = [frame |-> r.frame, keys |-> r.keys, of |-> entry]
      BY <3>1 DEF entry
    <3>3. w = [frame |-> r.frame, keys |-> fewer, of |-> entry]
      BY <3>2 DEF fewer
    <3>4. w.frame = r.frame /\ w.keys = fewer
      BY <3>3
    <3> HIDE DEF w
    <3>5. RowOk(w, s, g)
      BY <3>1, <3>3, <3>4 DEF RowOk, entry
    <3> QED BY <3>5 DEF w
  <2>5. RowsOk(broken, s, g)
    BY <2>3, <2>4 DEF StoreOk, RowsOk
  <2>6. disk' = [disk EXCEPT ![a] = d]
    BY <2>2
  <2> HIDE DEF broken
  <2>7. StoreOk(d)
    BY <2>3, <2>5 DEF StoreOk
  <2> HIDE DEF d
  <2>8. DiskOk(disk')
    BY <2>3, <2>6, <2>7 DEF DiskOk
  <2> QED BY <1>7, <2>8 DEF SearchInv, Search!Damage
<1> QED BY <1>1, <1>2, <1>3, <1>4, <1>5, <1>6, <1>7

INSTANCE FiniteSetTheorems

LEMMA SameCardinality == \A S : Search!Cardinality(S) = Cardinality(S)
BY Zenon DEF Search!Cardinality, Cardinality

\* A timeline has as many rows as frames.
LEMMA WholeRowsCount ==
  ASSUME NEW s \in SearchStreams, NEW g \in SearchGenerations
  PROVE  /\ IsFiniteSet(WholeRows(s, g))
         /\ Cardinality(WholeRows(s, g)) = Count(s, g)
<1> DEFINE n == Count(s, g)
           row(f) == [frame |-> f, keys |-> Bands, of |-> Entry(s, g, f)]
           h == [f \in 0 .. n - 1 |-> row(f)]
<1>1. n \in Nat
  BY CountType
<1>2. IsFiniteSet(0 .. n - 1) /\ Cardinality(0 .. n - 1) = n
  <2> HIDE DEF n
  <2>1. 0 \in Int /\ n - 1 \in Int
    BY <1>1
  <2>2. /\ IsFiniteSet(0 .. n - 1)
        /\ Cardinality(0 .. n - 1) = IF 0 > n - 1 THEN 0 ELSE (n - 1) - 0 + 1
    BY <2>1, FS_Interval, Zenon
  <2> QED BY <1>1, <2>2
<1>3. WholeRows(s, g) = {row(f) : f \in 0 .. n - 1}
  BY DEF WholeRows
<1>4. \A f, k : row(f) = row(k) => f = k
  OBVIOUS
<1> HIDE DEF row, n
<1>5. h \in [0 .. n - 1 -> WholeRows(s, g)]
  BY <1>3
<1>6. \A a, b \in 0 .. n - 1 : h[a] = h[b] => a = b
  BY <1>4
<1>7. \A y \in WholeRows(s, g) : \E f \in 0 .. n - 1 : h[f] = y
  BY <1>3
<1> HIDE DEF h
<1>8. h \in Bijection(0 .. n - 1, WholeRows(s, g))
  BY <1>5, <1>6, <1>7 DEF Bijection, Injection, IsInjective, Surjection
<1>9. ExistsBijection(0 .. n - 1, WholeRows(s, g))
  BY <1>8, Zenon DEF ExistsBijection
<1> QED BY <1>2, <1>9, FS_Bijection, Zenon DEF n

\* What load and query accept is the whole timeline of the search.
LEMMA ReusableIsWhole ==
  ASSUME SearchInv, NEW d, StoreOk(d), NEW s \in SearchStreams,
         NEW n, n = Count(s, build.generation), Search!Reusable(d, s, n)
  PROVE  d.rows = WholeRows(s, build.generation)
<1> DEFINE g == build.generation
<1>1. g \in SearchGenerations
  BY DEF SearchInv
<1>2. d.key.stream = s /\ d.key.generation = g
  BY SMTT(30) DEF Search!Reusable, Search!Key
<1>3. /\ \A r \in d.rows : r.keys = Bands
      /\ Cardinality(d.rows) = Count(s, g)
  BY SameCardinality, Zenon DEF Search!Reusable, Search!ValidRows
<1>4. \A r \in d.rows : RowOk(r, s, g)
  BY <1>2 DEF StoreOk, RowsOk
<1>5. ASSUME NEW r \in d.rows PROVE r \in WholeRows(s, g)
  <2>1. r.frame \in 0 .. Count(s, g) - 1 /\ r.keys = Bands
    BY <1>3, <1>4 DEF RowOk
  <2>2. r = [frame |-> r.frame, keys |-> Bands, of |-> Entry(s, g, r.frame)]
    BY <1>3, <1>4 DEF RowOk
  <2> QED BY <2>1, <2>2 DEF WholeRows
<1> HIDE DEF g
<1>6. d.rows \in SUBSET WholeRows(s, g)
  BY <1>5
<1>7. Cardinality(d.rows) = Cardinality(WholeRows(s, g)) /\ IsFiniteSet(WholeRows(s, g))
  BY <1>1, <1>3, WholeRowsCount
<1> QED BY <1>6, <1>7, FS_Subset, Zenon DEF g

\* load and query purge what they do not accept and answer from what they do.
LEMMA LoadKeeps ==
  ASSUME SearchInv, Search!Load \/ Search!Query
  PROVE  SearchInv'
<1> DEFINE d == disk[build.algorithm]
           fresh == d # None /\ Search!Reusable(d, search.stream, search.frames)
<1>1. /\ search # None /\ SearchOk(search, build) /\ DiskOk(disk) /\ build.algorithm \in Algorithms
      /\ build' = build /\ session' = session
  BY DEF SearchInv, Search!Load, Search!Query
<1>2. disk' = disk \/ disk' = [disk EXCEPT ![build.algorithm] = None]
  BY DEF Search!Load, Search!Query, Search!Put
<1>3. DiskOk(disk')
  BY <1>1, <1>2 DEF DiskOk
<1>4. \/ search' = None
      \/ search' = [search EXCEPT !.pc = "query"]
      \/ search.pc = "load" /\ search' = [search EXCEPT !.pc = "begin"]
      \/ fresh /\ search' = [search EXCEPT !.pc = "answered", !.answer = d.rows]
  BY DEF Search!Load, Search!Query, Search!Fail
<1>5. ASSUME fresh PROVE d.rows = WholeRows(search.stream, build.generation)
  <2>1. StoreOk(d) /\ search.stream \in SearchStreams
        /\ search.frames = Count(search.stream, build.generation)
    BY <1>1, <1>5 DEF DiskOk, SearchOk
  <2> QED BY <1>5, <2>1, ReusableIsWhole
<1> HIDE DEF d, fresh
<1>6. search' # None => SearchOk(search', build)
  BY <1>1, <1>4, <1>5, Zenon DEF SearchOk
<1> QED BY <1>1, <1>3, <1>6 DEF SearchInv

(***************************************************************************)
(* For any streams, versions, timelines and decoded media, whatever is     *)
(* damaged, replaced by another version, closed or cut off in between: a   *)
(* search answers from one fully indexed descriptor of every frame of its  *)
(* own timeline and of nothing else (query_similarity, load,               *)
(* validate_rows, validate_source_frame, flush_batch, finish).             *)
(***************************************************************************)
THEOREM AnswersAreAlwaysWhole == Search!Spec => []AnswersAreWhole
<1>1. Search!Init => SearchInv
  <2> SUFFICES ASSUME Search!Init PROVE SearchInv
    OBVIOUS
  <2>1. DiskOk(disk)
    BY DEF Search!Init, DiskOk
  <2> QED BY <2>1 DEF Search!Init, SearchInv
<1>2. ASSUME SearchInv, Search!Next PROVE SearchInv'
  BY <1>2, LoadKeeps, BeginSearchKeeps, SearchFrameKeeps, SearchFinishKeeps, AroundSearchKeeps
     DEF Search!Next
<1>3. ASSUME SearchInv, UNCHANGED Search!vars PROVE SearchInv'
  BY <1>3 DEF SearchInv, Search!vars
<1>4. SearchInv => AnswersAreWhole
  BY Zenon DEF SearchInv, SearchOk, AnswersAreWhole, Search!AnswersAreWhole, WholeRows, Search!Entries,
               Count, Entry
<1> QED BY <1>1, <1>2, <1>3, <1>4, PTL DEF Search!Spec
====
