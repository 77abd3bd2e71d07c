------------------------- MODULE BatchExportProofs -------------------------
(***************************************************************************)
(* A batch export implements its contract, keeps no torn manifest and      *)
(* hands out only frames that reconcile with the index, for every source,  *)
(* plan and stride, whichever call fails and whenever it does.             *)
(*                                                                         *)
(* The contract speaks of claims and artifacts, the code of the position   *)
(* of a scan.  ScanInv ties the two together: the claims are exactly the   *)
(* wanted frames the scan has left behind.                                 *)
(***************************************************************************)
EXTENDS BatchExport, TLAPS

Manifests ==
  [header : BOOLEAN, claims : Seq(Nat),
   terminal : {"none", "complete", "cancelled", "failed"}, torn : BOOLEAN]

Documents == [pixels : Nat, committed : BOOLEAN]

Claimed == Len(manifest.claims)

Goal == Len(job.wanted)

Ascending(w) == \A i, j \in 1 .. Len(w) : i < j => w[i] < w[j]

\* The plan: ascending, from the first frame of the scan to the last.
JobOK ==
  /\ job.kind \in {"batch", "unique"}
  /\ job.wanted \in Seq(Nat) /\ Goal > 0
  /\ job.first \in Ids(indexed)
  /\ job.first = job.wanted[1] /\ job.last = job.wanted[Goal]
  /\ Ascending(job.wanted)

MediaOK ==
  /\ index = IndexOf(indexed)
  /\ \E pair \in Timelines : indexed = pair[1] /\ source = pair[2]

Early == {"idle", "preflight", "header", "align"}

Writing == {"open", "encode", "commit", "record"}

Scanning == {"visit", "advance"} \cup Writing

TypeInv ==
  /\ manifest \in Manifests
  /\ documents \in [Ids(documents) -> Documents] /\ Ids(documents) \subseteq Nat
  /\ pc \in Early \cup Scanning \cup {"finish", "returned", "close", "done", "dead"}

\* The claims are the wanted frames that the scan has left behind.
ScanInv ==
  /\ Claimed <= Goal
  /\ \A k \in 1 .. Claimed : manifest.claims[k] = job.wanted[k]
  /\ pc \in Early => Claimed = 0 /\ documents = NoDocuments
  /\ pc \in Scanning => current \in Nat /\ current <= job.last /\ position \in Ids(source)
  /\ pc \in {"visit"} \cup Writing =>
       \A k \in 1 .. Goal : job.wanted[k] < current <=> k <= Claimed
  /\ pc = "advance" => \A k \in 1 .. Goal : job.wanted[k] <= current <=> k <= Claimed
  /\ pc \in Writing => Claimed < Goal /\ current = job.wanted[Claimed + 1]
  /\ pc = "finish" => Claimed = Goal

\* No artifact is stored ahead of the scan, and none is claimed before it is.
StoreInv ==
  /\ pc \in {"visit", "open", "encode", "commit"} => \A f \in Committed : f < current
  /\ pc \in {"record", "advance"} => \A f \in Committed : f <= current
  /\ pc \in {"encode", "commit", "record"} => current \in Ids(documents)
  /\ pc = "record" => current \in Committed

\* What manifest, workspace and caller know at each stage.
OutcomeInv ==
  /\ pc \in Early \cup Scanning \cup {"finish"} =>
       /\ manifest.terminal = "none" /\ ~manifest.torn /\ report = "none"
       /\ workspace = IF pc = "idle" THEN "none" ELSE "active"
  /\ pc = "returned" =>
       /\ report = "none" /\ workspace = "active"
       /\ code = "ok" => manifest.terminal = "complete"
       /\ manifest.torn => code = "manifest_error"
  /\ pc = "close" =>
       /\ workspace \in {"active", "committed"}
       /\ workspace = "active" => report \in {"none", "failure"}
  /\ NoTornManifestIsKept

ExportInv == JobOK /\ MediaOK /\ TypeInv /\ ScanInv /\ StoreInv /\ OutcomeInv

(***************************************************************************)
(* Plans.                                                                  *)
(***************************************************************************)
\* Integer division of numbers.
LEMMA Quotient ==
  ASSUME NEW a \in Nat, NEW b \in Nat \ {0}
  PROVE  a \div b \in Nat
OBVIOUS

\* Later multiples are larger.
LEMMA Multiples ==
  ASSUME NEW i \in Nat, NEW j \in Nat, NEW s \in Nat \ {0}, i < j
  PROVE  i * s \in Nat /\ j * s \in Nat /\ i * s < j * s
OBVIOUS

\* An every-N plan is increasing and starts at its first frame.
LEMMA PlannedIncreases ==
  ASSUME NEW first \in Nat, NEW last \in Nat, first <= last, NEW stride \in Nat \ {0}
  PROVE  /\ Planned(first, last, stride) \in Seq(Nat)
         /\ Len(Planned(first, last, stride)) > 0
         /\ Planned(first, last, stride)[1] = first
         /\ Ascending(Planned(first, last, stride))
<1> DEFINE n == (last - first) \div stride + 1
           w == Planned(first, last, stride)
<1>1. n \in Nat \ {0}
  BY Quotient
<1> HIDE DEF n
<1>2. w = [k \in 1 .. n |-> first + (k - 1) * stride]
  BY DEF Planned, n
<1>3. \A k \in 1 .. n : (k - 1) * stride \in Nat
  OBVIOUS
<1>4. w \in [1 .. n -> Nat]
  BY <1>2, <1>3
<1>5. w \in Seq(Nat) /\ Len(w) = n
  BY <1>1, <1>4
<1>6. w[1] = first
  BY <1>1, <1>2
<1>7. ASSUME NEW i \in 1 .. n, NEW j \in 1 .. n, i < j
      PROVE  w[i] < w[j]
  <2>1. (i - 1) * stride \in Nat /\ (j - 1) * stride \in Nat
        /\ (i - 1) * stride < (j - 1) * stride
    BY <1>7, Multiples
  <2>2. w[i] = first + (i - 1) * stride /\ w[j] = first + (j - 1) * stride
    BY <1>2
  <2> QED BY <2>1, <2>2
<1>8. Ascending(w)
  BY <1>5, <1>7 DEF Ascending
<1> QED BY <1>1, <1>5, <1>6, <1>8

\* Both kinds of plan are as JobOK says.
LEMMA InitJob ==
  ASSUME Init
  PROVE  JobOK /\ MediaOK
<1>1. MediaOK
  BY DEF Init, MediaOK
<1>2. PICK n \in Nat : Ids(indexed) = 0 .. n - 1
  <2>1. PICK pair \in Timelines : indexed = pair[1]
    BY DEF Init
  <2> QED BY <2>1, ExportAssumption DEF Ids
<1>3. CASE job \in BatchJobs
  <2>1. PICK t \in Ids(indexed) \X Ids(indexed) \X Strides :
          /\ t[1] <= t[2]
          /\ job = [kind |-> "batch", first |-> t[1],
                    last |-> Planned(t[1], t[2], t[3])[Len(Planned(t[1], t[2], t[3]))],
                    wanted |-> Planned(t[1], t[2], t[3])]
    BY <1>3 DEF BatchJobs
  <2>2. PICK first \in Ids(indexed), last \in Ids(indexed), stride \in Strides :
          first = t[1] /\ last = t[2] /\ stride = t[3]
    OBVIOUS
  <2> DEFINE w == Planned(first, last, stride)
  <2>3. /\ first \in Nat /\ last \in Nat /\ first <= last /\ stride \in Nat \ {0}
    BY <1>2, <2>1, <2>2, ExportAssumption
  <2>4. w \in Seq(Nat) /\ Len(w) > 0 /\ w[1] = first /\ Ascending(w)
    BY <2>3, PlannedIncreases
  <2> HIDE DEF w
  <2>5. job.kind = "batch" /\ job.first = first /\ job.last = w[Len(w)] /\ job.wanted = w
    BY <2>1, <2>2 DEF w
  <2> QED BY <1>1, <2>4, <2>5 DEF JobOK, Goal
<1>4. CASE job \in UniqueJobs
  <2>1. PICK m \in 1 .. Cardinality(Ids(indexed)) : \E w \in [1 .. m -> Ids(indexed)] :
          /\ \A i, j \in DOMAIN w : i < j => w[i] < w[j]
          /\ job = [kind |-> "unique", first |-> w[1], last |-> w[Len(w)], wanted |-> w]
    BY <1>4 DEF UniqueJobs
  <2>5. PICK w \in [1 .. m -> Ids(indexed)] :
          /\ \A i, j \in DOMAIN w : i < j => w[i] < w[j]
          /\ job = [kind |-> "unique", first |-> w[1], last |-> w[Len(w)], wanted |-> w]
    BY <2>1
  <2>3. m \in Nat /\ m > 0
    BY <2>1
  <2>4. w \in Seq(Nat) /\ Len(w) = m /\ w[1] \in Ids(indexed)
    BY <1>2, <2>5, <2>3
  <2> QED BY <1>1, <2>5, <2>3, <2>4 DEF JobOK, Goal, Ascending
<1> QED BY <1>1, <1>3, <1>4 DEF Init

(***************************************************************************)
(* The manifest.                                                           *)
(***************************************************************************)
\* What writing to the manifest does to its parts.
LEMMA ManifestWrites ==
  ASSUME NEW m \in Manifests
  PROVE  /\ \A t \in {"complete", "cancelled", "failed"} :
              /\ [m EXCEPT !.terminal = t] \in Manifests
              /\ [m EXCEPT !.terminal = t].claims = m.claims
              /\ [m EXCEPT !.terminal = t].terminal = t
              /\ [m EXCEPT !.terminal = t].torn = m.torn
         /\ /\ [m EXCEPT !.torn = TRUE] \in Manifests
            /\ [m EXCEPT !.torn = TRUE].claims = m.claims
            /\ [m EXCEPT !.torn = TRUE].terminal = m.terminal
         /\ /\ [m EXCEPT !.header = TRUE] \in Manifests
            /\ [m EXCEPT !.header = TRUE].claims = m.claims
            /\ [m EXCEPT !.header = TRUE].terminal = m.terminal
            /\ [m EXCEPT !.header = TRUE].torn = m.torn
BY DEF Manifests

\* A frame record is appended to the claims.
LEMMA ManifestRecords ==
  ASSUME manifest \in Manifests, current \in Nat
  PROVE  /\ Recorded \in Manifests
         /\ Recorded.claims = Append(manifest.claims, current)
         /\ Recorded.terminal = manifest.terminal
         /\ Recorded.torn = manifest.torn
<1> DEFINE c == Append(manifest.claims, current)
<1>1. c \in Seq(Nat)
  BY DEF Manifests
<1>2. Recorded = [manifest EXCEPT !.claims = c]
  BY DEF Recorded
<1> HIDE DEF c
<1>3. /\ [manifest EXCEPT !.claims = c] \in Manifests
      /\ [manifest EXCEPT !.claims = c].claims = c
      /\ [manifest EXCEPT !.claims = c].terminal = manifest.terminal
      /\ [manifest EXCEPT !.claims = c].torn = manifest.torn
  BY <1>1 DEF Manifests
<1> QED BY <1>2, <1>3 DEF c

\* How a scan ends early: the claims stay, and a terminal record is there
\* unless it could not be written.
Ends(terminal) ==
  /\ pc' = "returned"
  /\ manifest' \in Manifests /\ manifest'.claims = manifest.claims
  /\ \/ manifest'.terminal = terminal /\ manifest'.torn = manifest.torn
     \/ manifest'.terminal = manifest.terminal /\ code' = "manifest_error"
  /\ code' = "ok" => manifest'.terminal = "complete"

LEMMA FinishEnds ==
  ASSUME manifest \in Manifests, NEW answer,
         NEW terminal \in {"complete", "cancelled", "failed"},
         answer = "ok" => terminal = "complete",
         Finish(terminal, answer)
  PROVE  Ends(terminal)
<1>1. CASE manifest' = [manifest EXCEPT !.terminal = terminal] /\ code' = answer
  <2>1. /\ [manifest EXCEPT !.terminal = terminal] \in Manifests
        /\ [manifest EXCEPT !.terminal = terminal].claims = manifest.claims
        /\ [manifest EXCEPT !.terminal = terminal].terminal = terminal
        /\ [manifest EXCEPT !.terminal = terminal].torn = manifest.torn
    BY ManifestWrites
  <2>2. pc' = "returned"
    BY DEF Finish
  <2>3. /\ manifest' \in Manifests /\ manifest'.claims = manifest.claims
        /\ manifest'.terminal = terminal /\ manifest'.torn = manifest.torn
    BY <1>1, <2>1
  <2> QED BY <1>1, <2>2, <2>3 DEF Ends
<1>2. CASE manifest' = [manifest EXCEPT !.torn = TRUE] /\ code' = "manifest_error"
  <2>1. /\ [manifest EXCEPT !.torn = TRUE] \in Manifests
        /\ [manifest EXCEPT !.torn = TRUE].claims = manifest.claims
        /\ [manifest EXCEPT !.torn = TRUE].terminal = manifest.terminal
    BY ManifestWrites
  <2>2. pc' = "returned"
    BY DEF Finish
  <2>3. manifest' \in Manifests /\ manifest'.claims = manifest.claims
        /\ manifest'.terminal = manifest.terminal
    BY <1>2, <2>1
  <2> QED BY <1>2, <2>2, <2>3 DEF Ends
<1> QED BY <1>1, <1>2 DEF Finish

(***************************************************************************)
(* Steps that keep the invariant.                                          *)
(***************************************************************************)
LEMMA MediaStays ==
  ASSUME JobOK, MediaOK, UNCHANGED media
  PROVE  JobOK' /\ MediaOK'
BY DEF JobOK, MediaOK, media, Goal, Ids, Ascending

\* Positions in a source, and frame ids, are numbers.
LEMMA Positions ==
  ASSUME MediaOK
  PROVE  /\ Ids(source) \subseteq Nat /\ Ids(indexed) \subseteq Nat
         /\ \E n \in Nat : Ids(indexed) = 0 .. n - 1
<1>1. PICK pair \in Timelines : indexed = pair[1] /\ source = pair[2]
  BY DEF MediaOK
<1>2. \E n \in Nat : Ids(source) = 0 .. n - 1
  BY <1>1, ExportAssumption DEF Ids
<1>3. \E n \in Nat : Ids(indexed) = 0 .. n - 1
  BY <1>1, ExportAssumption DEF Ids
<1> QED BY <1>2, <1>3

\* The claims are wanted frames, in order.
Prefix == Claimed <= Goal /\ \A k \in 1 .. Claimed : manifest.claims[k] = job.wanted[k]

\* Native code answers: nothing but the manifest and the answer is of interest.
LEMMA Returns ==
  ASSUME JobOK, MediaOK, UNCHANGED media, pc' = "returned",
         manifest' \in Manifests, Prefix',
         documents' \in [Ids(documents') -> Documents], Ids(documents') \subseteq Nat,
         workspace = "active", report = "none", UNCHANGED <<workspace, report>>,
         code' = "ok" => manifest'.terminal = "complete",
         manifest'.torn => code' = "manifest_error"
  PROVE  ExportInv'
<1>1. JobOK' /\ MediaOK'
  BY MediaStays
<1>2. TypeInv'
  BY DEF TypeInv
<1>3. ScanInv'
  BY DEF ScanInv, Prefix, Early, Scanning, Writing
<1>4. StoreInv'
  BY DEF StoreInv
<1>5. OutcomeInv'
  BY DEF OutcomeInv, NoTornManifestIsKept, Early, Scanning, Writing
<1> QED BY <1>1, <1>2, <1>3, <1>4, <1>5 DEF ExportInv

\* A step that ends the scan early.
LEMMA EndsEarly ==
  ASSUME ExportInv, UNCHANGED media,
         pc \in (Early \ {"idle"}) \cup Scanning \cup {"finish"},
         NEW terminal \in {"complete", "cancelled", "failed"}, NEW answer,
         answer = "ok" => terminal = "complete",
         Finish(terminal, answer),
         documents' \in [Ids(documents') -> Documents], Ids(documents') \subseteq Nat,
         UNCHANGED <<workspace, report>>
  PROVE  ExportInv'
<1> USE DEF ExportInv
<1>1. Ends(terminal)
  BY FinishEnds DEF TypeInv
<1>2. /\ ~manifest.torn /\ report = "none" /\ workspace = "active"
      /\ manifest.terminal = "none"
  BY DEF OutcomeInv, Early, Scanning, Writing
<1>3. manifest'.torn => code' = "manifest_error"
  BY <1>1, <1>2 DEF Ends
<1>4. Prefix'
  BY <1>1 DEF Prefix, ScanInv, Ends, Claimed, Goal, media
<1>5. pc' = "returned" /\ manifest' \in Manifests
      /\ (code' = "ok" => manifest'.terminal = "complete")
  BY <1>1 DEF Ends
<1> HIDE DEF ExportInv
<1> QED BY <1>2, <1>3, <1>4, <1>5, Returns DEF ExportInv

LEMMA CreateManifestKeeps ==
  ASSUME ExportInv, CreateManifest
  PROVE  ExportInv'
<1>1. JobOK' /\ MediaOK'
  BY MediaStays DEF ExportInv, CreateManifest
<1>2. TypeInv'
  BY DEF ExportInv, CreateManifest, TypeInv, Early
<1>3. ScanInv'
  <2>1. pc' \in {"preflight", "done"} /\ pc = "idle"
    BY DEF CreateManifest
  <2>2. Claimed' = Claimed /\ Goal' = Goal /\ manifest' = manifest /\ job' = job
        /\ documents' = documents
    BY DEF CreateManifest, media, Claimed, Goal
  <2> QED BY <2>1, <2>2 DEF ExportInv, ScanInv, Early, Scanning, Writing
<1>4. StoreInv'
  BY DEF CreateManifest, StoreInv
<1>5. OutcomeInv'
  BY DEF ExportInv, CreateManifest, OutcomeInv, NoTornManifestIsKept, Early, Scanning, Writing
<1> QED BY <1>1, <1>2, <1>3, <1>4, <1>5 DEF ExportInv

LEMMA PreflightKeeps ==
  ASSUME ExportInv, Preflight
  PROVE  ExportInv'
<1> USE DEF ExportInv
<1>1. pc = "preflight" /\ UNCHANGED <<media, scan, signals, documents, manifest, workspace, report>>
  BY DEF Preflight
<1>2. /\ workspace = "active" /\ report = "none"
      /\ manifest.terminal = "none" /\ ~manifest.torn
  BY <1>1 DEF OutcomeInv, Early
<1>3. Prefix'
  BY <1>1 DEF ScanInv, Prefix, Claimed, Goal, media
<1>4. CASE pc' = "returned" /\ code' # "ok"
  BY <1>1, <1>2, <1>3, <1>4, Returns DEF TypeInv
<1>5. CASE pc' \in {"close", "header"}
  <2>1. JobOK' /\ MediaOK'
    BY <1>1, MediaStays
  <2>2. TypeInv'
    BY <1>1, <1>5 DEF TypeInv, Early
  <2>3. ScanInv'
    <3>1. Claimed' = Claimed /\ Goal' = Goal /\ manifest' = manifest /\ job' = job
          /\ documents' = documents
      BY <1>1 DEF media, Claimed, Goal
    <3> QED BY <1>1, <1>5, <3>1 DEF ScanInv, Early, Scanning, Writing
  <2>4. StoreInv'
    BY <1>5 DEF StoreInv
  <2>5. OutcomeInv'
    BY <1>1, <1>2, <1>5 DEF OutcomeInv, NoTornManifestIsKept, Early, Scanning, Writing
  <2> QED BY <2>1, <2>2, <2>3, <2>4, <2>5
<1>6. pc' \in {"close", "header"} \/ (pc' = "returned" /\ code' # "ok")
  BY DEF Preflight, UniquePreflightCodes, BatchPreflightCodes
<1> QED BY <1>4, <1>5, <1>6

LEMMA WriteHeaderKeeps ==
  ASSUME ExportInv, WriteHeader
  PROVE  ExportInv'
<1> USE DEF ExportInv
<1>1. pc = "header" /\ UNCHANGED <<media, scan, signals, documents, workspace, report>>
  BY DEF WriteHeader
<1>2. /\ workspace = "active" /\ report = "none"
      /\ manifest.terminal = "none" /\ ~manifest.torn
  BY <1>1 DEF OutcomeInv, Early
<1>3. manifest \in Manifests
  BY DEF TypeInv
<1>4. CASE manifest' = [manifest EXCEPT !.torn = TRUE] /\ pc' = "returned"
           /\ code' = "manifest_error"
  <2>1. manifest' \in Manifests /\ manifest'.claims = manifest.claims
    BY <1>3, <1>4, ManifestWrites
  <2>2. Prefix'
    BY <1>1, <2>1 DEF ScanInv, Prefix, Claimed, Goal, media
  <2> QED BY <1>1, <1>2, <1>4, <2>1, <2>2, Returns DEF TypeInv
<1>5. CASE manifest' = [manifest EXCEPT !.header = TRUE] /\ pc' = "align" /\ code' = code
  <2>1. /\ manifest' \in Manifests /\ manifest'.claims = manifest.claims
        /\ manifest'.terminal = manifest.terminal /\ manifest'.torn = manifest.torn
    BY <1>3, <1>5, ManifestWrites
  <2>2. JobOK' /\ MediaOK'
    BY <1>1, MediaStays
  <2>3. TypeInv'
    BY <1>1, <1>5, <2>1 DEF TypeInv, Early
  <2>4. ScanInv'
    <3>1. Claimed' = Claimed /\ Goal' = Goal /\ job' = job /\ documents' = documents
      BY <1>1, <2>1 DEF media, Claimed, Goal
    <3> QED BY <1>1, <1>5, <2>1, <3>1 DEF ScanInv, Early, Scanning, Writing
  <2>5. StoreInv'
    BY <1>5 DEF StoreInv
  <2>6. OutcomeInv'
    BY <1>1, <1>2, <1>5, <2>1 DEF OutcomeInv, NoTornManifestIsKept, Early, Scanning, Writing
  <2> QED BY <2>2, <2>3, <2>4, <2>5, <2>6
<1> QED BY <1>4, <1>5 DEF WriteHeader

(***************************************************************************)
(* Where a scan begins.                                                    *)
(***************************************************************************)
Same == source = indexed /\ ComputeSeekSafety(index) = "unambiguous"

\* The index has a row per frame that was decoded, which looks like it.
LEMMA IndexFacts ==
  ASSUME MediaOK
  PROVE  /\ DOMAIN index = Ids(indexed) /\ Anchored(index)
         /\ \A i \in Ids(indexed) :
              /\ indexed[i] \in Frames
              /\ index[i].ts = indexed[i].ts /\ index[i].keyframe = indexed[i].keyframe
              /\ index[i].corrupt = indexed[i].corrupt
<1>1. PICK pair \in Timelines : indexed = pair[1] /\ source = pair[2]
  BY DEF MediaOK
<1>2. Anchored(index)
  BY <1>1, ExportAssumption DEF MediaOK
<1>3. \A i \in Ids(indexed) : indexed[i] \in Frames
  BY <1>1, ExportAssumption DEF Ids
<1> DEFINE A == CHOOSE anchors : anchors =
                  [i \in DOMAIN indexed |->
                     NextAnchor(IF i = 0 THEN StreamStart ELSE anchors[i - 1], indexed[i], i)]
<1>4. index = [i \in DOMAIN indexed |-> EntryFromDecoded(indexed[i], A[i])]
  BY DEF MediaOK, IndexOf
<1> HIDE DEF A
<1>5. /\ DOMAIN index = Ids(indexed)
      /\ \A i \in Ids(indexed) : index[i] = EntryFromDecoded(indexed[i], A[i])
  BY <1>4 DEF Ids
<1>6. \A i \in Ids(indexed) :
        /\ index[i].ts = indexed[i].ts /\ index[i].keyframe = indexed[i].keyframe
        /\ index[i].corrupt = indexed[i].corrupt
  BY <1>5 DEF EntryFromDecoded
<1> QED BY <1>2, <1>3, <1>5, <1>6

\* In an unchanged source only the anchor itself looks like it.
LEMMA AnchorIsFound ==
  ASSUME MediaOK, Same, NEW a \in Ids(indexed), Clean(index[a]),
         NEW p \in Ids(source), Matches(p, a)
  PROVE  p = a
<1>1. /\ p \in Ids(indexed) /\ p \in Nat /\ a \in Nat
      /\ p \in DOMAIN index /\ a \in DOMAIN index
  BY Positions, IndexFacts DEF Same
<1>2. source[p] = indexed[p]
  BY DEF Same
<1>3. index[p].ts = index[a].ts /\ Clean(index[p])
  BY <1>1, <1>2, IndexFacts DEF Matches, MatchesEntry, Clean
<1>4. IncreasingKeyframes(index)
  BY DEF Same, ComputeSeekSafety
<1>5. p \in CleanKeyframes(index) /\ a \in CleanKeyframes(index)
  BY <1>1, <1>3 DEF CleanKeyframes
<1>6. index[a].ts # None
  BY <1>4, <1>5 DEF IncreasingKeyframes
<1>7. index[a].ts \in Int
  BY <1>1, <1>6, IndexFacts DEF Frames, OptTicks
<1>8. ~(p < a) /\ ~(a < p)
  BY <1>3, <1>4, <1>5, <1>7 DEF IncreasingKeyframes
<1> QED BY <1>1, <1>8

\* Wherever a seek lands, the scan begins at a position that looks like the
\* first planned frame, and is it in an unchanged source.
LEMMA Landing ==
  ASSUME JobOK, MediaOK, NEW aligned \in Alignments, NEW p \in aligned
  PROVE  p \in Ids(source) /\ Matches(p, job.first) /\ (Same => p = job.first)
<1>1. job.first \in Nat /\ job.first \in Ids(indexed) /\ job.first \in DOMAIN index
  BY Positions, IndexFacts DEF JobOK
<1>2. CASE aligned = AlignFromStart
  <2>1. AlignedAt(0, 0) /\ p = job.first
    BY <1>2 DEF AlignFromStart
  <2>2. 0 + (job.first - 0) = job.first /\ job.first \in 0 .. job.first - 0
    BY <1>1
  <2>3. 0 + job.first = job.first
    BY <1>1
  <2> QED BY <2>1, <2>2, <2>3 DEF AlignedAt
<1>3. ASSUME Seekable, NEW landing \in Ids(source),
             aligned = AlignFromSeek(landing, index[job.first].anchor.frame_id)
      PROVE  p \in Ids(source) /\ Matches(p, job.first) /\ (Same => p = job.first)
  <2> DEFINE a == index[job.first].anchor.frame_id
  <2>1. AnchorOf(index, job.first, index[job.first].anchor)
    BY <1>1, IndexFacts DEF Anchored
  <2>2. a \in 0 .. job.first /\ Clean(index[a])
    BY <1>3, <2>1 DEF AnchorOf, Seekable
  <2>3. PICK s \in Ids(source) : Matches(s, a) /\ AlignedAt(s, a) /\ p = s + (job.first - a)
    BY <1>3 DEF AlignFromSeek
  <2>5. s \in Ids(source) /\ Matches(s, a) /\ s \in Nat
    BY <2>3, Positions
  <2>6. p \in Ids(source)
    BY <2>3 DEF AlignedAt
  <2>7. Matches(s + (job.first - a), a + (job.first - a))
    <3>1. job.first - a \in 0 .. job.first - a
      BY <1>1, <2>2
    <3> HIDE DEF a
    <3> QED BY <2>3, <3>1 DEF AlignedAt
  <2>8. a + (job.first - a) = job.first /\ a \in Nat
    BY <1>1, <2>2
  <2>9. a \in Ids(indexed)
    <3>1. PICK n \in Nat : Ids(indexed) = 0 .. n - 1
      BY Positions
    <3> QED BY <1>1, <2>2, <3>1
  <2>10. ASSUME Same PROVE p = job.first
    <3> HIDE DEF a
    <3>1. s = a
      BY <2>10, <2>2, <2>5, <2>9, AnchorIsFound
    <3> QED BY <2>3, <2>8, <3>1
  <2> HIDE DEF a
  <2> QED BY <2>3, <2>6, <2>7, <2>8, <2>10
<1>4. \/ aligned = AlignFromStart
      \/ /\ Seekable
         /\ \E landing \in Ids(source) :
              aligned = AlignFromSeek(landing, index[job.first].anchor.frame_id)
  BY DEF Alignments
<1> QED BY <1>2, <1>3, <1>4

(***************************************************************************)
(* The scan.                                                               *)
(***************************************************************************)
\* The scan goes on: what is left to show is where it stands.
LEMMA GoesOn ==
  ASSUME ExportInv, UNCHANGED <<media, workspace, report>>,
         pc \in {"align"} \cup Scanning, pc' \in Scanning \cup {"finish"},
         manifest' \in Manifests, manifest'.terminal = manifest.terminal,
         manifest'.torn = manifest.torn,
         documents' \in [Ids(documents') -> Documents], Ids(documents') \subseteq Nat,
         ScanInv', StoreInv'
  PROVE  ExportInv'
<1>1. JobOK' /\ MediaOK'
  BY MediaStays DEF ExportInv
<1>2. TypeInv'
  BY DEF TypeInv
<1>3. OutcomeInv'
  <2>1. /\ manifest.terminal = "none" /\ ~manifest.torn /\ report = "none"
        /\ workspace = "active"
    BY DEF ExportInv, OutcomeInv, Early, Scanning, Writing
  <2> QED BY <2>1 DEF OutcomeInv, NoTornManifestIsKept, Early, Scanning, Writing
<1> QED BY <1>1, <1>2, <1>3 DEF ExportInv

\* Facts about a plan and the claims made on it.
LEMMA Numbers ==
  ASSUME ExportInv
  PROVE  /\ Claimed \in Nat /\ Goal \in Nat /\ Goal > 0
         /\ \A k \in 1 .. Goal : job.wanted[k] \in Nat
         /\ job.last \in Nat /\ job.first \in Nat
         /\ manifest \in Manifests
         /\ documents \in [Ids(documents) -> Documents] /\ Ids(documents) \subseteq Nat
<1>1. manifest.claims \in Seq(Nat) /\ job.wanted \in Seq(Nat) /\ Goal > 0
  BY DEF ExportInv, TypeInv, JobOK, Manifests
<1>2. Claimed \in Nat /\ Goal \in Nat /\ \A k \in 1 .. Goal : job.wanted[k] \in Nat
  BY <1>1 DEF Claimed, Goal
<1> QED BY <1>1, <1>2 DEF ExportInv, TypeInv, JobOK

LEMMA AlignKeeps ==
  ASSUME ExportInv, Align
  PROVE  ExportInv'
<1>1. pc = "align" /\ UNCHANGED <<media, documents, workspace, report>>
  BY DEF Align
<1>2. CASE \E t \in {"cancelled", "failed"}, answer \in {"cancelled", "decode_error"} :
             Finish(t, answer)
  BY <1>1, <1>2, EndsEarly, Numbers DEF Early
<1>3. ASSUME NEW aligned \in Alignments, current' = job.first, position' \in aligned,
             pc' = "visit", UNCHANGED <<manifest, code>>
      PROVE  ExportInv'
  <2>1. position' \in Ids(source)
    BY <1>3, Landing DEF ExportInv
  <2>2. Claimed' = 0 /\ Claimed = 0 /\ Goal' = Goal /\ job' = job /\ source' = source
        /\ documents' = NoDocuments
    BY <1>1, <1>3 DEF ExportInv, ScanInv, Early, Claimed, Goal, media
  <2>3. \A k \in 1 .. Goal : job.first <= job.wanted[k]
    <3>1. Ascending(job.wanted) /\ job.first = job.wanted[1]
      BY DEF ExportInv, JobOK
    <3>2. \A k \in 2 .. Goal : job.wanted[1] < job.wanted[k]
      BY <3>1, Numbers DEF Ascending, Goal
    <3> QED BY <3>1, <3>2, Numbers
  <2>4. job.first <= job.last
    BY <2>3, Numbers DEF ExportInv, JobOK
  <2>5. ScanInv'
    <3>1. Claimed' <= Goal' /\ \A k \in 1 .. Claimed' : manifest'.claims[k] = job'.wanted[k]
      BY <2>2, Numbers
    <3>2. current' \in Nat /\ current' <= job'.last /\ position' \in Ids(source')
      BY <1>3, <2>1, <2>2, <2>4, Numbers
    <3>3. \A k \in 1 .. Goal' : job'.wanted[k] < current' <=> k <= Claimed'
      BY <1>3, <2>2, <2>3, Numbers
    <3> QED BY <1>3, <3>1, <3>2, <3>3 DEF ScanInv, Early, Scanning, Writing
  <2>6. Committed' = {}
    BY <2>2 DEF Committed, NoDocuments, Ids
  <2>7. StoreInv'
    BY <1>3, <2>6 DEF StoreInv
  <2> QED BY <1>1, <1>3, <2>5, <2>7, GoesOn, Numbers DEF Scanning
<1> QED BY <1>2, <1>3 DEF Align, Interrupted, DecodeFailed

LEMMA VisitKeeps ==
  ASSUME ExportInv, Visit
  PROVE  ExportInv'
<1>1. pc = "visit" /\ UNCHANGED <<media, scan, documents, workspace, report>>
  BY DEF Visit
<1>2. CASE Finish("cancelled", "cancelled")
  BY <1>1, <1>2, EndsEarly, Numbers DEF Scanning
<1>3. CASE pc' \in {"advance", "open"} /\ UNCHANGED <<manifest, code>>
           /\ (pc' = "open" <=> Wanted(current))
  <2>1. /\ Claimed' = Claimed /\ Goal' = Goal /\ job' = job /\ source' = source
        /\ documents' = documents /\ current' = current /\ position' = position
        /\ Committed' = Committed /\ manifest' = manifest
    BY <1>1, <1>3 DEF Claimed, Goal, media, scan, Committed, Ids
  <2>2. /\ Claimed <= Goal
        /\ \A k \in 1 .. Claimed : manifest.claims[k] = job.wanted[k]
        /\ current \in Nat /\ current <= job.last /\ position \in Ids(source)
        /\ \A k \in 1 .. Goal : job.wanted[k] < current <=> k <= Claimed
    BY <1>1 DEF ExportInv, ScanInv, Scanning
  <2>3. Wanted(current) <=> \E k \in 1 .. Goal : job.wanted[k] = current
    BY DEF Wanted, ExportInv, JobOK, Goal
  <2>4. CASE pc' = "advance"
    <3>1. \A k \in 1 .. Goal : job.wanted[k] # current
      BY <1>3, <2>3, <2>4
    <3>2. \A k \in 1 .. Goal : job.wanted[k] <= current <=> k <= Claimed
      BY <2>2, <3>1, Numbers
    <3>3. ScanInv'
      BY <2>1, <2>2, <2>4, <3>2 DEF ScanInv, Early, Scanning, Writing
    <3>4. \A f \in Committed : f <= current
      <4>1. \A f \in Committed : f < current
        BY <1>1 DEF ExportInv, StoreInv
      <4>2. Committed \subseteq Nat
        BY Numbers DEF Committed
      <4> QED BY <2>2, <4>1, <4>2
    <3>5. StoreInv'
      BY <2>1, <2>4, <3>4 DEF StoreInv
    <3> QED BY <1>1, <2>1, <2>4, <3>3, <3>5, GoesOn, Numbers DEF Scanning
  <2>5. CASE pc' = "open"
    <3>1. PICK k \in 1 .. Goal : job.wanted[k] = current
      BY <1>3, <2>3, <2>5
    <3>2. ~(k <= Claimed)
      BY <2>2, <3>1, Numbers
    <3>3. k = Claimed + 1
      <4>1. CASE Claimed + 1 < k
        <5>1. Claimed + 1 \in 1 .. Goal
          BY <4>1, Numbers
        <5>2. job.wanted[Claimed + 1] < job.wanted[k]
          BY <4>1, <5>1 DEF ExportInv, JobOK, Ascending, Goal
        <5>3. Claimed + 1 <= Claimed
          BY <2>2, <3>1, <5>1, <5>2
        <5> QED BY <5>3, Numbers
      <4> QED BY <3>2, <4>1, Numbers
    <3>4. Claimed < Goal /\ current = job.wanted[Claimed + 1]
      BY <3>1, <3>3, Numbers
    <3>5. ScanInv'
      BY <2>1, <2>2, <2>5, <3>4 DEF ScanInv, Early, Scanning, Writing
    <3>6. StoreInv'
      BY <1>1, <2>1, <2>5 DEF ExportInv, StoreInv
    <3> QED BY <1>1, <2>1, <2>5, <3>5, <3>6, GoesOn, Numbers DEF Scanning, Writing
  <2> QED BY <1>3, <2>4, <2>5
<1> QED BY <1>2, <1>3 DEF Visit, Interrupted

(***************************************************************************)
(* Documents.                                                              *)
(***************************************************************************)
Opened ==
  [f \in Ids(documents) \cup {current} |->
     IF f = current THEN [pixels |-> position, committed |-> FALSE] ELSE documents[f]]

\* A new document is not committed, and the others stay as they are.
LEMMA OpeningAdds ==
  ASSUME documents \in [Ids(documents) -> Documents], Ids(documents) \subseteq Nat,
         current \in Nat, position \in Nat, current \notin Committed, documents' = Opened
  PROVE  /\ documents' \in [Ids(documents') -> Documents] /\ Ids(documents') \subseteq Nat
         /\ Ids(documents') = Ids(documents) \cup {current}
         /\ Committed' = Committed
         /\ documents'[current].pixels = position
         /\ \A f \in Ids(documents) \ {current} : documents'[f] = documents[f]
<1>1. /\ DOMAIN documents' = Ids(documents) \cup {current}
      /\ documents'[current] = [pixels |-> position, committed |-> FALSE]
      /\ \A f \in Ids(documents) \ {current} : documents'[f] = documents[f]
  BY DEF Opened
<1>2. Ids(documents') = Ids(documents) \cup {current}
  BY <1>1 DEF Ids
<1>3. [pixels |-> position, committed |-> FALSE] \in Documents
  BY DEF Documents
<1>4. \A f \in Ids(documents') : documents'[f] \in Documents
  BY <1>1, <1>2, <1>3
<1>5. documents' = [f \in Ids(documents') |-> documents'[f]]
  BY DEF Opened, Ids
<1>6. documents' \in [Ids(documents') -> Documents]
  BY <1>4, <1>5
<1>7. documents'[current].committed = FALSE /\ documents'[current].pixels = position
  BY <1>1
<1>8. Committed' = Committed
  BY <1>1, <1>2, <1>7 DEF Committed
<1> QED BY <1>1, <1>2, <1>6, <1>7, <1>8

\* What is not committed may be deleted.
LEMMA AbortingLeaves ==
  ASSUME documents \in [Ids(documents) -> Documents], Ids(documents) \subseteq Nat,
         documents' \in Aborted
  PROVE  /\ documents' \in [Ids(documents') -> Documents] /\ Ids(documents') \subseteq Nat
         /\ Ids(documents') \subseteq Ids(documents)
         /\ Committed' = Committed
         /\ \A f \in Ids(documents') : documents'[f] = documents[f]
<1>1. CASE documents' = documents
  BY <1>1 DEF Committed
<1>2. CASE documents' = [f \in Committed |-> documents[f]]
  <2>1. Ids(documents') = Committed /\ Committed \subseteq Ids(documents)
        /\ \A f \in Committed : documents'[f] = documents[f]
    BY <1>2 DEF Ids, Committed
  <2>2. documents' \in [Ids(documents') -> Documents]
    BY <1>2, <2>1
  <2>3. Committed' = {f \in Ids(documents') : documents'[f].committed}
    BY DEF Committed
  <2>4. \A f \in Committed : documents[f].committed
    BY DEF Committed
  <2>5. Committed' = Committed
    BY <2>1, <2>3, <2>4
  <2> QED BY <2>1, <2>2, <2>5
<1> QED BY <1>1, <1>2 DEF Aborted, Committed

\* A document that is committed keeps its pixels.
LEMMA CommittingMarks ==
  ASSUME documents \in [Ids(documents) -> Documents], Ids(documents) \subseteq Nat,
         current \in Ids(documents), documents' = [documents EXCEPT ![current].committed = TRUE]
  PROVE  /\ documents' \in [Ids(documents') -> Documents] /\ Ids(documents') \subseteq Nat
         /\ Ids(documents') = Ids(documents)
         /\ Committed' = Committed \cup {current}
         /\ \A f \in Ids(documents) : documents'[f].pixels = documents[f].pixels
<1> DEFINE d == [documents[current] EXCEPT !.committed = TRUE]
<1>1. d \in Documents /\ d.pixels = documents[current].pixels /\ d.committed = TRUE
  BY DEF Documents
<1>2. documents' = [documents EXCEPT ![current] = d]
  OBVIOUS
<1> HIDE DEF d
<1>3. Ids(documents') = Ids(documents) /\ documents' \in [Ids(documents) -> Documents]
      /\ documents'[current] = d
      /\ \A f \in Ids(documents) \ {current} : documents'[f] = documents[f]
  BY <1>1, <1>2 DEF Ids
<1>4. Committed' = Committed \cup {current}
  BY <1>1, <1>3 DEF Committed
<1>5. \A f \in Ids(documents) : documents'[f].pixels = documents[f].pixels
  BY <1>1, <1>3
<1> QED BY <1>3, <1>4, <1>5

\* While one artifact is written the scan stands still.
LEMMA StandsStill ==
  ASSUME ExportInv, UNCHANGED <<media, scan, manifest>>, pc \in Writing, pc' \in Writing
  PROVE  ScanInv' /\ manifest' \in Manifests
<1>1. /\ Claimed' = Claimed /\ Goal' = Goal /\ job' = job /\ source' = source
      /\ current' = current /\ position' = position /\ manifest' = manifest
  BY DEF Claimed, Goal, media, scan
<1> QED BY <1>1, Numbers DEF ExportInv, ScanInv, Early, Scanning, Writing

LEMMA Standing ==
  ASSUME ExportInv, pc \in Writing
  PROVE  /\ current \in Nat /\ position \in Ids(source) /\ position \in Nat
         /\ Claimed < Goal /\ current = job.wanted[Claimed + 1]
         /\ pc # "record" => current \notin Committed
<1>1. /\ current \in Nat /\ position \in Ids(source)
      /\ Claimed < Goal /\ current = job.wanted[Claimed + 1]
  BY DEF ExportInv, ScanInv, Scanning
<1>2. pc # "record" => \A f \in Committed : f < current
  BY DEF ExportInv, StoreInv, Writing
<1>3. pc # "record" => current \notin Committed
  BY <1>1, <1>2
<1> QED BY <1>1, <1>3, Positions DEF ExportInv

LEMMA OpenFrameKeeps ==
  ASSUME ExportInv, OpenFrame
  PROVE  ExportInv'
<1>1. pc = "open" /\ UNCHANGED <<media, scan, workspace, report>>
  BY DEF OpenFrame
<1>2. CASE Finish("failed", "output_error") /\ UNCHANGED documents
  BY <1>1, <1>2, EndsEarly, Numbers DEF Scanning, Writing
<1>3. CASE documents' = Opened /\ pc' = "encode" /\ UNCHANGED <<manifest, code>>
  <2>1. ScanInv' /\ manifest' \in Manifests
    BY <1>1, <1>3, StandsStill DEF Writing
  <2>2. /\ documents' \in [Ids(documents') -> Documents] /\ Ids(documents') \subseteq Nat
        /\ current \in Ids(documents') /\ Committed' = Committed
    BY <1>1, <1>3, Numbers, Standing, OpeningAdds DEF Writing
  <2>3. StoreInv'
    BY <1>1, <1>3, <2>2 DEF ExportInv, StoreInv, scan
  <2> QED BY <1>1, <1>3, <2>1, <2>2, <2>3, GoesOn DEF Scanning, Writing
<1> QED BY <1>2, <1>3 DEF OpenFrame, Opened

LEMMA EncodeFrameKeeps ==
  ASSUME ExportInv, EncodeFrame
  PROVE  ExportInv'
<1>1. pc = "encode" /\ UNCHANGED <<media, scan, workspace, report>>
  BY DEF EncodeFrame
<1>2. CASE documents' \in Aborted /\ Finish("failed", "output_error")
  <2>1. documents' \in [Ids(documents') -> Documents] /\ Ids(documents') \subseteq Nat
    BY <1>2, Numbers, AbortingLeaves
  <2> QED BY <1>1, <1>2, <2>1, EndsEarly DEF Scanning, Writing
<1>3. CASE pc' = "commit" /\ UNCHANGED <<documents, manifest, code>>
  <2>1. ScanInv' /\ manifest' \in Manifests
    BY <1>1, <1>3, StandsStill DEF Writing
  <2>2. Committed' = Committed
    BY <1>3 DEF Committed
  <2>3. StoreInv'
    BY <1>1, <1>3, <2>2 DEF ExportInv, StoreInv, scan
  <2> QED BY <1>1, <1>3, <2>1, <2>3, GoesOn, Numbers DEF Scanning, Writing
<1> QED BY <1>2, <1>3 DEF EncodeFrame

LEMMA CommitFrameKeeps ==
  ASSUME ExportInv, CommitFrame
  PROVE  ExportInv' /\ Committed' = Committed \cup {current}
<1>1. pc = "commit" /\ UNCHANGED <<media, scan, workspace, report>>
      /\ documents' = [documents EXCEPT ![current].committed = TRUE]
  BY DEF CommitFrame
<1>2. current \in Ids(documents)
  BY <1>1 DEF ExportInv, StoreInv
<1>3. /\ documents' \in [Ids(documents') -> Documents] /\ Ids(documents') \subseteq Nat
      /\ Ids(documents') = Ids(documents) /\ Committed' = Committed \cup {current}
  BY <1>1, <1>2, Numbers, CommittingMarks
<1>4. CASE Finish("failed", "output_error")
  BY <1>1, <1>3, <1>4, EndsEarly DEF Scanning, Writing
<1>5. CASE pc' = "record" /\ UNCHANGED <<manifest, code>>
  <2>1. ScanInv' /\ manifest' \in Manifests
    BY <1>1, <1>5, StandsStill DEF Writing
  <2>2. \A f \in Committed : f < current /\ f \in Nat
    BY <1>1, <1>2, Numbers DEF ExportInv, StoreInv, Committed
  <2>3. \A f \in Committed' : f <= current
    BY <1>1, <1>3, <2>2, Standing DEF Writing
  <2>4. StoreInv'
    BY <1>1, <1>2, <1>3, <1>5, <2>3 DEF StoreInv, scan
  <2> QED BY <1>1, <1>3, <1>5, <2>1, <2>4, GoesOn DEF Scanning, Writing
<1> QED BY <1>3, <1>4, <1>5 DEF CommitFrame

(***************************************************************************)
(* Records.                                                                *)
(***************************************************************************)
\* A record is one more claim, of the next wanted frame.
LEMMA Recording ==
  ASSUME ExportInv, pc = "record", UNCHANGED media,
         manifest'.claims = Append(manifest.claims, current)
  PROVE  Prefix' /\ Claimed' = Claimed + 1 /\ Goal' = Goal
<1>1. manifest.claims \in Seq(Nat) /\ current \in Nat
  BY Numbers, Standing DEF Manifests, Writing
<1>2. /\ Len(manifest'.claims) = Claimed + 1
      /\ \A k \in 1 .. Claimed : manifest'.claims[k] = manifest.claims[k]
      /\ manifest'.claims[Claimed + 1] = current
  BY <1>1 DEF Claimed
<1>3. Claimed' = Claimed + 1 /\ Goal' = Goal /\ job' = job
  BY <1>2 DEF Claimed, Goal, media
<1>4. Claimed < Goal /\ current = job.wanted[Claimed + 1]
  BY Standing DEF Writing
<1>5. \A k \in 1 .. Claimed : manifest.claims[k] = job.wanted[k]
  BY DEF ExportInv, ScanInv
<1>6. \A k \in 1 .. Claimed + 1 : manifest'.claims[k] = job.wanted[k]
  BY <1>2, <1>4, <1>5, Numbers
<1>7. Claimed' <= Goal'
  BY <1>3, <1>4, Numbers
<1>8. \A k \in 1 .. Claimed' : manifest'.claims[k] = job'.wanted[k]
  BY <1>3, <1>6
<1> QED BY <1>3, <1>7, <1>8 DEF Prefix

\* The record is written and the scan goes on.
LEMMA RecordedKeeps ==
  ASSUME ExportInv, pc = "record", manifest' = Recorded, pc' = "advance",
         UNCHANGED <<media, scan, documents, workspace, report>>
  PROVE  ExportInv'
<1>1. current \in Nat /\ position \in Ids(source) /\ Claimed < Goal
      /\ current = job.wanted[Claimed + 1]
  BY Standing DEF Writing
<1>2. /\ manifest' \in Manifests /\ manifest'.claims = Append(manifest.claims, current)
      /\ manifest'.terminal = manifest.terminal /\ manifest'.torn = manifest.torn
  BY <1>1, Numbers, ManifestRecords
<1>3. Prefix' /\ Claimed' = Claimed + 1 /\ Goal' = Goal
  BY <1>2, Recording
<1>4. job' = job /\ source' = source /\ current' = current /\ position' = position
      /\ Committed' = Committed /\ documents' = documents
  BY DEF media, scan, Committed
<1>5. current <= job.last /\ \A k \in 1 .. Goal : job.wanted[k] < current <=> k <= Claimed
  BY DEF ExportInv, ScanInv, Scanning, Writing
<1>6. ASSUME NEW k \in 1 .. Goal
      PROVE  job.wanted[k] <= current <=> k <= Claimed + 1
  <2>1. k # Claimed + 1 => job.wanted[k] # current
    <3>1. Claimed + 1 \in 1 .. Goal
      BY <1>1, Numbers
    <3>2. k < Claimed + 1 \/ Claimed + 1 < k \/ k = Claimed + 1
      BY Numbers
    <3>3. Ascending(job.wanted)
      BY DEF ExportInv, JobOK
    <3>4. k < Claimed + 1 => job.wanted[k] < current
      BY <1>1, <3>1, <3>3 DEF Ascending, Goal
    <3>5. Claimed + 1 < k => current < job.wanted[k]
      BY <1>1, <3>1, <3>3 DEF Ascending, Goal
    <3> QED BY <1>1, <3>2, <3>4, <3>5, Numbers
  <2>2. job.wanted[k] <= current <=> job.wanted[k] < current \/ job.wanted[k] = current
    BY <1>1, Numbers
  <2> QED BY <1>1, <1>5, <2>1, <2>2, Numbers
<1>7. ScanInv'
  <2>1. Claimed' <= Goal' /\ \A k \in 1 .. Claimed' : manifest'.claims[k] = job'.wanted[k]
    BY <1>3 DEF Prefix
  <2>2. \A k \in 1 .. Goal' : job'.wanted[k] <= current' <=> k <= Claimed'
    BY <1>3, <1>4, <1>6
  <2> QED BY <1>1, <1>4, <1>5, <2>1, <2>2 DEF ScanInv, Early, Scanning, Writing
<1>8. StoreInv'
  BY <1>4 DEF ExportInv, StoreInv
<1> QED BY <1>2, <1>7, <1>8, GoesOn, Numbers DEF Scanning, Writing

\* The record, or what follows it, cannot be written.
LEMMA UnrecordedKeeps ==
  ASSUME ExportInv, pc = "record", WriteTorn \/ NextGroupFails,
         UNCHANGED <<media, scan, documents, workspace, report>>
  PROVE  ExportInv'
<1>1. current \in Nat /\ manifest \in Manifests
  BY Standing, Numbers DEF Writing
<1>2. /\ Recorded \in Manifests
      /\ Recorded.claims = Append(manifest.claims, current)
      /\ Recorded.torn = manifest.torn
  BY <1>1, ManifestRecords
<1>3. ~manifest.torn /\ report = "none" /\ workspace = "active"
  BY DEF ExportInv, OutcomeInv, Scanning, Writing
<1>4. CASE WriteTorn
  <2>1. manifest' \in Manifests /\ manifest'.claims = manifest.claims
    BY <1>1, <1>4, ManifestWrites DEF WriteTorn
  <2>2. Prefix'
    BY <2>1 DEF Prefix, ExportInv, ScanInv, Claimed, Goal, media
  <2> QED BY <1>3, <1>4, <2>1, <2>2, Returns, Numbers DEF WriteTorn, ExportInv
<1>5. CASE NextGroupFails
  <2>1. \/ manifest' = [Recorded EXCEPT !.terminal = "failed"] /\ code' = "group_output_error"
        \/ manifest' = [Recorded EXCEPT !.torn = TRUE] /\ code' = "manifest_error"
    BY <1>5 DEF NextGroupFails
  <2>2. /\ [Recorded EXCEPT !.terminal = "failed"] \in Manifests
        /\ [Recorded EXCEPT !.terminal = "failed"].claims = Recorded.claims
        /\ [Recorded EXCEPT !.terminal = "failed"].torn = Recorded.torn
        /\ [Recorded EXCEPT !.torn = TRUE] \in Manifests
        /\ [Recorded EXCEPT !.torn = TRUE].claims = Recorded.claims
    BY <1>2, ManifestWrites
  <2>3. /\ manifest' \in Manifests /\ manifest'.claims = Append(manifest.claims, current)
        /\ code' # "ok" /\ (manifest'.torn => code' = "manifest_error")
    BY <1>2, <1>3, <2>1, <2>2
  <2>4. Prefix'
    BY <2>3, Recording
  <2> QED BY <1>3, <1>5, <2>3, <2>4, Returns, Numbers DEF NextGroupFails, ExportInv
<1> QED BY <1>4, <1>5

LEMMA WritesKeep ==
  ASSUME ExportInv, WriteFrame \/ WriteRepresentative
  PROVE  ExportInv'
BY RecordedKeeps, UnrecordedKeeps DEF WriteFrame, WriteRepresentative

LEMMA AdvanceKeeps ==
  ASSUME ExportInv, Advance
  PROVE  ExportInv'
<1>1. pc = "advance" /\ current # job.last /\ UNCHANGED <<media, documents, workspace, report>>
  BY DEF Advance
<1>2. CASE \E t \in {"cancelled", "failed"}, answer \in {"cancelled", "decode_error"} :
             Finish(t, answer)
  BY <1>1, <1>2, EndsEarly, Numbers DEF Scanning
<1>3. CASE /\ position + 1 \in Ids(source) /\ current' = current + 1
           /\ position' = position + 1 /\ pc' = "visit" /\ UNCHANGED <<manifest, code>>
  <2>1. /\ Claimed' = Claimed /\ Goal' = Goal /\ job' = job /\ source' = source
        /\ documents' = documents /\ Committed' = Committed /\ manifest' = manifest
    BY <1>1, <1>3 DEF Claimed, Goal, media, Committed
  <2>2. /\ Claimed <= Goal
        /\ \A k \in 1 .. Claimed : manifest.claims[k] = job.wanted[k]
        /\ current \in Nat /\ current <= job.last
        /\ \A k \in 1 .. Goal : job.wanted[k] <= current <=> k <= Claimed
    BY <1>1 DEF ExportInv, ScanInv, Scanning
  <2>3. current' \in Nat /\ current' <= job.last
    BY <1>1, <1>3, <2>2, Numbers
  <2>4. \A k \in 1 .. Goal : job.wanted[k] < current + 1 <=> k <= Claimed
    BY <2>2, Numbers
  <2>5. ScanInv'
    BY <1>3, <2>1, <2>2, <2>3, <2>4 DEF ScanInv, Early, Scanning, Writing
  <2>6. \A f \in Committed : f <= current /\ f \in Nat
    BY <1>1, Numbers DEF ExportInv, StoreInv, Committed
  <2>7. \A f \in Committed : f < current + 1
    BY <2>2, <2>6
  <2>8. StoreInv'
    BY <1>3, <2>1, <2>7 DEF StoreInv
  <2> QED BY <1>1, <1>3, <2>1, <2>5, <2>8, GoesOn, Numbers DEF Scanning
<1> QED BY <1>2, <1>3 DEF Advance, Interrupted, DecodeFailed

\* The last frame of the scan is the last wanted one, so all are claimed.
LEMMA ScanDoneKeeps ==
  ASSUME ExportInv, ScanDone
  PROVE  ExportInv'
<1>1. pc = "advance" /\ current = job.last /\ pc' = "finish"
      /\ UNCHANGED <<media, scan, documents, manifest, workspace, report>>
  BY DEF ScanDone
<1>2. /\ Claimed' = Claimed /\ Goal' = Goal /\ job' = job /\ manifest' = manifest
  BY <1>1 DEF Claimed, Goal, media
<1>3. /\ Claimed <= Goal
      /\ \A k \in 1 .. Claimed : manifest.claims[k] = job.wanted[k]
      /\ \A k \in 1 .. Goal : job.wanted[k] <= current <=> k <= Claimed
  BY <1>1 DEF ExportInv, ScanInv
<1>4. Goal \in 1 .. Goal /\ job.wanted[Goal] <= current
  BY <1>1, Numbers DEF ExportInv, JobOK
<1>5. Claimed = Goal
  BY <1>3, <1>4, Numbers
<1>6. ScanInv'
  BY <1>1, <1>2, <1>3, <1>5 DEF ScanInv, Early, Scanning, Writing
<1>7. StoreInv'
  BY <1>1 DEF StoreInv
<1> QED BY <1>1, <1>6, <1>7, GoesOn, Numbers DEF Scanning

LEMMA FinishCompleteKeeps ==
  ASSUME ExportInv, FinishComplete
  PROVE  ExportInv'
<1>1. pc = "finish" /\ UNCHANGED <<media, documents, workspace, report>>
      /\ Finish("complete", "ok")
  BY DEF FinishComplete
<1> QED BY <1>1, EndsEarly, Numbers

\* Steps of the repository and of the world leave claims and plan alone.
LEMMA Outside ==
  ASSUME ExportInv, UNCHANGED <<media, manifest>>,
         pc' \in {"close", "done", "dead"},
         documents' \in [Ids(documents') -> Documents], Ids(documents') \subseteq Nat,
         OutcomeInv'
  PROVE  ExportInv'
<1>1. JobOK' /\ MediaOK'
  BY MediaStays DEF ExportInv
<1>2. TypeInv'
  BY Numbers DEF TypeInv
<1>3. ScanInv'
  <2>1. Claimed' = Claimed /\ Goal' = Goal /\ job' = job /\ manifest' = manifest
    BY DEF Claimed, Goal, media
  <2> QED BY <2>1 DEF ExportInv, ScanInv, Early, Scanning, Writing
<1>4. StoreInv'
  BY DEF StoreInv
<1> QED BY <1>1, <1>2, <1>3, <1>4 DEF ExportInv

\* An answer that keeps the workspace comes with a manifest that is whole.
LEMMA RecheckKeeps ==
  ASSUME ExportInv, Recheck
  PROVE  ExportInv'
<1>1. pc = "returned" /\ pc' = "close" /\ UNCHANGED <<media, documents, manifest, code>>
  BY DEF Recheck
<1>2. /\ workspace = "active"
      /\ manifest.torn => code = "manifest_error"
  BY <1>1 DEF ExportInv, OutcomeInv
<1>3. code = "ok" \/ Preserved(code) => code # "manifest_error"
  BY DEF Preserved
<1>4. workspace' \in {"active", "committed"}
      /\ (workspace' = "committed" => code # "manifest_error")
  BY <1>1, <1>2, <1>3 DEF Recheck, ExportInv, OutcomeInv
<1>5. workspace' = "active" => report' = "failure"
  BY DEF Recheck
<1>6. OutcomeInv'
  BY <1>1, <1>2, <1>4, <1>5 DEF OutcomeInv, NoTornManifestIsKept, Early, Scanning, Writing
<1> QED BY <1>1, <1>6, Outside, Numbers

LEMMA CloseKeeps ==
  ASSUME ExportInv, Close
  PROVE  ExportInv'
<1>1. pc' = "done" /\ UNCHANGED <<media, manifest>>
      /\ (documents' = documents \/ documents' = NoDocuments)
      /\ (workspace' = workspace \/ workspace' = "deleted")
  BY DEF Close
<1>2. documents' \in [Ids(documents') -> Documents] /\ Ids(documents') \subseteq Nat
  BY <1>1, Numbers DEF NoDocuments, Ids
<1>3. OutcomeInv'
  BY <1>1 DEF ExportInv, OutcomeInv, NoTornManifestIsKept, Early, Scanning, Writing
<1> QED BY <1>1, <1>2, <1>3, Outside

\* Signals and stuttering change nothing the invariant looks at.
LEMMA QuietKeeps ==
  ASSUME ExportInv,
         UNCHANGED <<media, pc, scan, documents, manifest, code, workspace, report>>
  PROVE  ExportInv'
<1>1. JobOK' /\ MediaOK'
  BY MediaStays DEF ExportInv
<1>2. TypeInv'
  BY DEF ExportInv, TypeInv
<1>3. ScanInv' /\ StoreInv'
  <2>1. Claimed' = Claimed /\ Goal' = Goal /\ job' = job /\ source' = source
        /\ Committed' = Committed /\ current' = current /\ position' = position
    BY DEF Claimed, Goal, media, scan, Committed
  <2> QED BY <2>1 DEF ExportInv, ScanInv, StoreInv
<1>4. OutcomeInv'
  BY DEF ExportInv, OutcomeInv, NoTornManifestIsKept
<1> QED BY <1>1, <1>2, <1>3, <1>4 DEF ExportInv

LEMMA DieKeeps ==
  ASSUME ExportInv, Die
  PROVE  ExportInv'
<1>1. pc' = "dead" /\ UNCHANGED <<media, documents, manifest, workspace, report>>
  BY DEF Die
<1>2. OutcomeInv'
  BY <1>1 DEF ExportInv, OutcomeInv, NoTornManifestIsKept, Early, Scanning, Writing
<1> QED BY <1>1, <1>2, Outside, Numbers

(***************************************************************************)
(* What the documents show.                                                *)
(***************************************************************************)
Shows(p, f) == Matches(p, f) /\ (Same => p = f)

\* The scan stands at a position that reconciles with its frame, and every
\* document was decoded at such a position.
PixelInv ==
  /\ pc \in Scanning => Shows(position, current)
  /\ \A f \in Ids(documents) : Shows(documents[f].pixels, f)

\* Steps that decode nothing and open no document.
LEMMA PixelsStay ==
  ASSUME PixelInv, UNCHANGED media, UNCHANGED scan \/ pc' \notin Scanning,
         pc' \in Scanning => pc \in Scanning,
         Ids(documents') \subseteq Ids(documents),
         \A f \in Ids(documents') : documents'[f].pixels = documents[f].pixels
  PROVE  PixelInv'
<1>1. source' = source /\ index' = index /\ indexed' = indexed
  BY DEF media
<1>2. ASSUME pc' \in Scanning PROVE Shows(position, current)'
  <2>1. position' = position /\ current' = current /\ Shows(position, current)
    BY <1>2 DEF PixelInv, scan
  <2> QED BY <1>1, <2>1 DEF Shows, Matches, Same
<1>3. ASSUME NEW f \in Ids(documents') PROVE Shows(documents[f].pixels, f)'
  <2>1. documents'[f].pixels = documents[f].pixels /\ Shows(documents[f].pixels, f)
    BY <1>3 DEF PixelInv
  <2> QED BY <1>1, <2>1 DEF Shows, Matches, Same
<1> QED BY <1>2, <1>3 DEF PixelInv

\* Before the scan there is nothing to show.
LEMMA AlignShows ==
  ASSUME ExportInv, PixelInv, Align
  PROVE  PixelInv'
<1>1. pc = "align" /\ UNCHANGED <<media, documents>>
  BY DEF Align
<1>2. CASE pc' = "returned"
  BY <1>1, <1>2, PixelsStay DEF Scanning, Writing
<1>3. ASSUME NEW aligned \in Alignments, current' = job.first, position' \in aligned,
             pc' = "visit"
      PROVE  PixelInv'
  <2>1. Matches(position', job.first) /\ (Same => position' = job.first)
    BY <1>3, Landing DEF ExportInv
  <2>2. Shows(position, current)'
    BY <1>1, <1>3, <2>1 DEF Shows, Matches, Same, media
  <2>3. Ids(documents') = {}
    BY <1>1 DEF ExportInv, ScanInv, Early, NoDocuments, Ids
  <2> QED BY <2>2, <2>3 DEF PixelInv
<1> QED BY <1>2, <1>3 DEF Align, Interrupted, DecodeFailed, Finish

\* Neighbours in the source are neighbours in the index.
LEMMA AdvanceShows ==
  ASSUME ExportInv, PixelInv, Advance
  PROVE  PixelInv'
<1>1. pc = "advance" /\ UNCHANGED <<media, documents>>
  BY DEF Advance
<1>2. CASE pc' = "returned"
  BY <1>1, <1>2, PixelsStay DEF Scanning, Writing
<1>3. CASE /\ Matches(position + 1, current + 1) /\ current' = current + 1
           /\ position' = position + 1
  <2>1. Shows(position, current)
    BY <1>1 DEF PixelInv, Scanning
  <2>2. Shows(position, current)'
    BY <1>1, <1>3, <2>1 DEF Shows, Matches, Same, media
  <2>3. ASSUME NEW f \in Ids(documents') PROVE Shows(documents[f].pixels, f)'
    <3>1. Shows(documents[f].pixels, f)
      BY <1>1, <2>3 DEF PixelInv
    <3> QED BY <1>1, <3>1 DEF Shows, Matches, Same, media
  <2> QED BY <2>2, <2>3 DEF PixelInv
<1> QED BY <1>2, <1>3 DEF Advance, Interrupted, DecodeFailed, Finish

\* A document gets the pixels of the position the scan stands at.
LEMMA OpenFrameShows ==
  ASSUME ExportInv, PixelInv, OpenFrame
  PROVE  PixelInv'
<1>1. pc = "open" /\ UNCHANGED <<media, scan>>
  BY DEF OpenFrame
<1>2. CASE UNCHANGED documents /\ pc' = "returned"
  BY <1>1, <1>2, PixelsStay DEF Scanning, Writing
<1>3. CASE documents' = Opened /\ pc' = "encode"
  <2>1. /\ Ids(documents') = Ids(documents) \cup {current}
        /\ documents'[current].pixels = position
        /\ \A f \in Ids(documents) \ {current} : documents'[f] = documents[f]
    BY <1>1, <1>3, Numbers, Standing, OpeningAdds DEF Writing
  <2>2. Shows(position, current)
    BY <1>1 DEF PixelInv, Scanning, Writing
  <2>3. ASSUME NEW f \in Ids(documents') PROVE Shows(documents'[f].pixels, f)
    BY <2>1, <2>2 DEF PixelInv
  <2>4. ASSUME NEW f \in Ids(documents') PROVE Shows(documents[f].pixels, f)'
    BY <1>1, <2>3 DEF Shows, Matches, Same, media
  <2>5. Shows(position, current)'
    BY <1>1, <2>2 DEF Shows, Matches, Same, media, scan
  <2> QED BY <2>4, <2>5 DEF PixelInv
<1> QED BY <1>2, <1>3 DEF OpenFrame, Opened, Finish

(***************************************************************************)
(* The contract.                                                           *)
(***************************************************************************)
Working == (Early \ {"idle"}) \cup Scanning \cup {"finish"}

\* What the contract sees while native code runs.
LEMMA AtWork ==
  ASSUME ExportInv, pc \in Working
  PROVE  /\ manifest.terminal = "none" /\ report = "none" /\ workspace = "active"
         /\ Kept = "no"
BY DEF ExportInv, OutcomeInv, Working, Early, Scanning, Writing, Kept

\* Steps the contract does not see.
LEMMA Unseen ==
  ASSUME UNCHANGED <<media, workspace, report>>, Committed' = Committed,
         manifest'.claims = manifest.claims, manifest'.terminal = manifest.terminal
  PROVE  UNCHANGED Contract!cvars
BY DEF Contract!cvars, media, Kept

LEMMA Extensional ==
  ASSUME NEW D, NEW f \in [D -> Nat], NEW g \in [D -> Nat], \A k \in D : f[k] = g[k]
  PROVE  f = g
OBVIOUS

\* A complete count is a complete manifest.
LEMMA AllClaimed ==
  ASSUME ExportInv, Claimed = Goal
  PROVE  manifest.claims = job.wanted
<1>1. manifest.claims \in Seq(Nat) /\ job.wanted \in Seq(Nat)
  BY Numbers DEF Manifests, ExportInv, JobOK
<1>2. \A k \in 1 .. Claimed : manifest.claims[k] = job.wanted[k]
  BY DEF ExportInv, ScanInv
<1>3. /\ manifest.claims \in [1 .. Goal -> Nat] /\ job.wanted \in [1 .. Goal -> Nat]
      /\ \A k \in 1 .. Goal : manifest.claims[k] = job.wanted[k]
  <2>1. \A q \in Seq(Nat) : q \in [1 .. Len(q) -> Nat]
    OBVIOUS
  <2>2. Len(manifest.claims) = Goal /\ Len(job.wanted) = Goal
    BY DEF Claimed, Goal
  <2> QED BY <1>1, <1>2, <2>1, <2>2
<1>4. PICK c \in [1 .. Goal -> Nat], w \in [1 .. Goal -> Nat] :
        c = manifest.claims /\ w = job.wanted
  BY <1>3
<1>5. \A k \in 1 .. Goal : c[k] = w[k]
  BY <1>3, <1>4
<1>6. c = w
  BY <1>5, Extensional
<1> QED BY <1>4, <1>6

\* A terminal record ends the manifest; a torn one is not seen.
LEMMA FinishIsEnd ==
  ASSUME ExportInv, pc \in Working, NEW answer,
         NEW terminal \in {"complete", "cancelled", "failed"},
         answer = "ok" => terminal = "complete",
         terminal = "complete" => Claimed = Goal, Finish(terminal, answer),
         UNCHANGED <<media, workspace, report>>, Committed' = Committed
  PROVE  [Contract!CNext]_Contract!cvars
<1>1. Ends(terminal)
  BY FinishEnds, Numbers
<1>2. CASE manifest'.terminal = terminal
  <2>1. terminal = "complete" => manifest.claims = job.wanted
    BY AllClaimed
  <2>2. manifest'.claims = manifest.claims /\ job' = job /\ Kept' = Kept
    BY <1>1 DEF Ends, media, Kept
  <2>3. Contract!End
    BY <1>2, <2>1, <2>2, AtWork DEF Contract!End
  <2> QED BY <2>3 DEF Contract!CNext
<1>3. CASE manifest'.terminal = manifest.terminal
  BY <1>1, <1>3, Unseen DEF Ends
<1> QED BY <1>1, <1>2, <1>3 DEF Ends

LEMMA CommitIsStore ==
  ASSUME ExportInv, CommitFrame
  PROVE  [Contract!CNext]_Contract!cvars
<1>1. pc = "commit" /\ UNCHANGED <<media, workspace, report>>
  BY DEF CommitFrame
<1>2. Committed' = Committed \cup {current}
  BY CommitFrameKeeps
<1>3. Claimed < Goal /\ current = job.wanted[Claimed + 1]
  BY <1>1, Standing DEF Writing
<1>4. /\ manifest.terminal = "none" /\ report = "none"
  BY <1>1, AtWork DEF Working, Scanning, Writing
<1>5. manifest'.claims = manifest.claims /\ manifest'.terminal \in {"none", "failed"}
  <2>1. CASE UNCHANGED manifest
    BY <1>4, <2>1
  <2>2. CASE Finish("failed", "output_error")
    <3>1. Ends("failed")
      BY <2>2, FinishEnds, Numbers
    <3> QED BY <1>4, <3>1 DEF Ends
  <2> QED BY <2>1, <2>2 DEF CommitFrame
<1>6. job' = job /\ Kept' = Kept
  BY <1>1 DEF media, Kept
<1>7. Contract!Store
  BY <1>1, <1>2, <1>3, <1>4, <1>5, <1>6
     DEF Contract!Store, Contract!Writing, Contract!Awaited, Claimed, Goal
<1> QED BY <1>7 DEF Contract!CNext

LEMMA WriteIsClaim ==
  ASSUME ExportInv, WriteFrame \/ WriteRepresentative
  PROVE  [Contract!CNext]_Contract!cvars
<1>1. pc = "record" /\ UNCHANGED <<media, documents, workspace, report>>
  BY DEF WriteFrame, WriteRepresentative
<1>2. /\ current \in Nat /\ Claimed < Goal /\ current = job.wanted[Claimed + 1]
      /\ manifest \in Manifests
  BY <1>1, Standing, Numbers DEF Writing
<1>3. current \in Committed /\ Committed' = Committed
  BY <1>1 DEF ExportInv, StoreInv, Committed
<1>4. /\ manifest.terminal = "none" /\ report = "none"
  BY <1>1, AtWork DEF Working, Scanning, Writing
<1>5. job' = job /\ Kept' = Kept
  BY <1>1 DEF media, Kept
<1>6. ASSUME manifest'.claims = Append(manifest.claims, current),
             manifest'.terminal \in {"none", "failed"}
      PROVE  [Contract!CNext]_Contract!cvars
  <2>1. Contract!Claim
    BY <1>1, <1>2, <1>3, <1>4, <1>5, <1>6
       DEF Contract!Claim, Contract!Writing, Contract!Awaited, Claimed, Goal
  <2> QED BY <2>1 DEF Contract!CNext
<1>7. CASE WriteTorn
  <2>1. manifest'.claims = manifest.claims /\ manifest'.terminal = manifest.terminal
    BY <1>2, <1>7, ManifestWrites DEF WriteTorn
  <2> QED BY <1>1, <1>3, <2>1, Unseen
<1>8. CASE manifest' = Recorded
  BY <1>2, <1>4, <1>6, <1>8, ManifestRecords
<1>9. CASE NextGroupFails
  <2>1. \/ manifest' = [Recorded EXCEPT !.terminal = "failed"]
        \/ manifest' = [Recorded EXCEPT !.torn = TRUE]
    BY <1>9 DEF NextGroupFails
  <2>2. /\ Recorded \in Manifests /\ Recorded.claims = Append(manifest.claims, current)
        /\ Recorded.terminal = "none"
    BY <1>2, <1>4, ManifestRecords
  <2>3. /\ [Recorded EXCEPT !.terminal = "failed"].claims = Recorded.claims
        /\ [Recorded EXCEPT !.terminal = "failed"].terminal = "failed"
        /\ [Recorded EXCEPT !.torn = TRUE].claims = Recorded.claims
        /\ [Recorded EXCEPT !.torn = TRUE].terminal = Recorded.terminal
    BY <2>2, ManifestWrites
  <2>4. manifest'.claims = Append(manifest.claims, current)
        /\ manifest'.terminal \in {"none", "failed"}
    BY <2>1, <2>2, <2>3
  <2> QED BY <1>6, <2>4
<1> QED BY <1>7, <1>8, <1>9 DEF WriteFrame, WriteRepresentative

LEMMA RecheckIsDecide ==
  ASSUME ExportInv, Recheck
  PROVE  [Contract!CNext]_Contract!cvars
<1>1. pc = "returned" /\ UNCHANGED <<media, documents, manifest>>
  BY DEF Recheck
<1>2. /\ report = "none" /\ workspace = "active"
      /\ code = "ok" => manifest.terminal = "complete"
  BY <1>1 DEF ExportInv, OutcomeInv
<1>3. /\ report' \in {"success", "failure"} /\ workspace' \in {"active", "committed"}
      /\ report' = "success" => code = "ok" /\ workspace' = "committed"
  BY <1>2 DEF Recheck
<1>4. Kept = "no" /\ Kept' \in {"no", "yes"} /\ (workspace' = "committed" => Kept' = "yes")
  BY <1>2, <1>3 DEF Kept
<1>5. job' = job /\ Committed' = Committed
  BY <1>1 DEF media, Committed
<1>6. Contract!Decide
  BY <1>1, <1>2, <1>3, <1>4, <1>5 DEF Contract!Decide
<1> QED BY <1>6 DEF Contract!CNext

\* Deleting the workspace, or failing to close it, is told as a failure.
LEMMA CloseIsWithdraw ==
  ASSUME ExportInv, Close
  PROVE  [Contract!CNext]_Contract!cvars
<1>1. pc = "close" /\ UNCHANGED <<media, manifest>> /\ report' \in {report, "failure"} \ {"none"}
  BY DEF Close
<1>2. job' = job
  BY <1>1 DEF media
<1>3. CASE UNCHANGED <<workspace, documents>>
  <2>1. Kept' = Kept /\ Committed' = Committed
    BY <1>3 DEF Kept, Committed
  <2>2. CASE report' = "failure"
    BY <1>1, <1>2, <2>1, <2>2 DEF Contract!CNext, Contract!Withdraw
  <2>3. CASE report' = report
    BY <1>1, <1>3, <2>1, <2>3, Unseen
  <2> QED BY <1>1, <2>2, <2>3
<1>4. CASE workspace = "active" /\ workspace' = "deleted" /\ documents' = NoDocuments
  <2>1. report' = "failure"
    BY <1>1, <1>4 DEF ExportInv, OutcomeInv
  <2>2. Kept = "no" /\ Kept' = "gone"
    BY <1>4 DEF Kept
  <2>3. Committed' = {}
    BY <1>4 DEF Committed, NoDocuments, Ids
  <2> QED BY <1>1, <1>2, <2>1, <2>2, <2>3 DEF Contract!CNext, Contract!Withdraw
<1> QED BY <1>3, <1>4 DEF Close

LEMMA CreateIsWithdraw ==
  ASSUME ExportInv, CreateManifest
  PROVE  [Contract!CNext]_Contract!cvars
<1>1. pc = "idle" /\ UNCHANGED <<media, documents, manifest>>
  BY DEF CreateManifest
<1>2. job' = job /\ Committed' = Committed
  BY <1>1 DEF media, Committed
<1>3. Committed = {} /\ workspace = "none" /\ Kept = "no"
  BY <1>1 DEF ExportInv, ScanInv, OutcomeInv, Early, Committed, NoDocuments, Ids, Kept
<1>4. CASE workspace' = "active" /\ UNCHANGED report
  <2>1. Kept' = Kept
    BY <1>3, <1>4 DEF Kept
  <2> QED BY <1>1, <1>2, <1>4, <2>1 DEF Contract!cvars
<1>5. CASE workspace' \in {"none", "deleted"} /\ report' = "failure"
  <2>1. Kept' \in {"no", "gone"}
    BY <1>5 DEF Kept
  <2> QED BY <1>1, <1>2, <1>3, <1>5, <2>1 DEF Contract!CNext, Contract!Withdraw
<1> QED BY <1>4, <1>5 DEF CreateManifest

(***************************************************************************)
(* One step, and every behaviour.                                          *)
(***************************************************************************)
LEMMA InitInv ==
  ASSUME Init
  PROVE  ExportInv /\ PixelInv /\ Contract!CInit
<1>1. JobOK /\ MediaOK
  BY InitJob
<1>2. pc = "idle" /\ documents = NoDocuments /\ manifest = Blank
      /\ workspace = "none" /\ report = "none"
  BY DEF Init
<1>3. manifest \in Manifests /\ Claimed = 0 /\ manifest.claims = <<>>
      /\ manifest.terminal = "none" /\ ~manifest.torn
  BY <1>2 DEF Blank, Manifests, Claimed
<1>4. Ids(documents) = {} /\ documents \in [{} -> Documents]
  BY <1>2 DEF NoDocuments, Ids
<1>5. TypeInv
  BY <1>2, <1>3, <1>4 DEF TypeInv, Early
<1>6. Goal \in Nat
  BY <1>1 DEF JobOK, Goal
<1>7. ScanInv
  BY <1>2, <1>3, <1>6 DEF ScanInv, Early, Scanning, Writing
<1>8. StoreInv
  BY <1>2 DEF StoreInv
<1>9. OutcomeInv
  BY <1>2, <1>3 DEF OutcomeInv, NoTornManifestIsKept, Early, Scanning, Writing
<1>10. PixelInv
  BY <1>2, <1>4 DEF PixelInv, Scanning, Writing
<1>11. Contract!CInit
  <2>1. Committed = {} /\ Kept = "no"
    BY <1>2, <1>4 DEF Committed, Kept
  <2> QED BY <1>1, <1>2, <1>3, <2>1 DEF Contract!CInit, JobOK
<1> QED BY <1>1, <1>5, <1>7, <1>8, <1>9, <1>10, <1>11 DEF ExportInv

LEMMA StepInv ==
  ASSUME ExportInv, [Next]_vars
  PROVE  ExportInv'
<1>1. CASE UNCHANGED vars \/ CancelNative \/ CancelCoroutine \/ ReplaceSource
  BY <1>1, QuietKeeps DEF vars, CancelNative, CancelCoroutine, ReplaceSource
<1>2. CASE Step
  BY <1>2, CreateManifestKeeps, PreflightKeeps, WriteHeaderKeeps, AlignKeeps, VisitKeeps,
     OpenFrameKeeps, EncodeFrameKeeps, CommitFrameKeeps, WritesKeep, AdvanceKeeps,
     ScanDoneKeeps, FinishCompleteKeeps, RecheckKeeps, CloseKeeps DEF Step
<1>3. CASE Die
  BY <1>3, DieKeeps
<1> QED BY <1>1, <1>2, <1>3 DEF Next

LEMMA StepShows ==
  ASSUME ExportInv, PixelInv, [Next]_vars
  PROVE  PixelInv'
<1>1. CASE UNCHANGED <<media, documents>> /\ (pc' \notin Scanning \/ UNCHANGED <<pc, scan>>)
  BY <1>1, PixelsStay
<1>2. CASE UNCHANGED vars \/ CancelNative \/ CancelCoroutine \/ ReplaceSource \/ Die
  BY <1>1, <1>2 DEF vars, CancelNative, CancelCoroutine, ReplaceSource, Die, Scanning, Writing
<1>3. CASE CreateManifest \/ Preflight \/ WriteHeader \/ ScanDone \/ FinishComplete \/ Recheck
  BY <1>1, <1>3 DEF CreateManifest, Preflight, WriteHeader, ScanDone, FinishComplete, Recheck,
     Finish, Scanning, Writing
<1>4. CASE Visit \/ WriteFrame \/ WriteRepresentative
  <2>1. pc \in Scanning /\ UNCHANGED <<media, documents, scan>>
    BY <1>4 DEF Visit, WriteFrame, WriteRepresentative, Scanning, Writing
  <2> QED BY <2>1, PixelsStay
<1>5. CASE EncodeFrame
  <2>1. pc \in Scanning /\ UNCHANGED <<media, scan>> /\ documents' \in Aborted
    BY <1>5 DEF EncodeFrame, Scanning, Writing, Aborted
  <2>2. Ids(documents') \subseteq Ids(documents)
        /\ \A f \in Ids(documents') : documents'[f] = documents[f]
    BY <2>1, AbortingLeaves, Numbers
  <2> QED BY <2>1, <2>2, PixelsStay
<1>6. CASE CommitFrame
  <2>1. pc \in Scanning /\ UNCHANGED <<media, scan>> /\ current \in Ids(documents)
        /\ documents' = [documents EXCEPT ![current].committed = TRUE]
    BY <1>6 DEF CommitFrame, Scanning, Writing, ExportInv, StoreInv
  <2>2. Ids(documents') = Ids(documents)
        /\ \A f \in Ids(documents) : documents'[f].pixels = documents[f].pixels
    BY <2>1, CommittingMarks, Numbers
  <2> QED BY <2>1, <2>2, PixelsStay
<1>7. CASE Close
  <2>1. UNCHANGED media /\ pc' = "done" /\ (documents' = documents \/ documents' = NoDocuments)
    BY <1>7 DEF Close
  <2>2. Ids(documents') \subseteq Ids(documents)
        /\ \A f \in Ids(documents') : documents'[f] = documents[f]
    BY <2>1 DEF NoDocuments, Ids
  <2> QED BY <2>1, <2>2, PixelsStay DEF Scanning, Writing
<1>8. CASE Align \/ Advance \/ OpenFrame
  BY <1>8, AlignShows, AdvanceShows, OpenFrameShows
<1> QED BY <1>2, <1>3, <1>4, <1>5, <1>6, <1>7, <1>8 DEF Next, Step

LEMMA StepKeepsContract ==
  ASSUME ExportInv, [Next]_vars
  PROVE  [Contract!CNext]_Contract!cvars
<1>1. CASE UNCHANGED <<media, documents, manifest, workspace, report>>
  <2>1. Committed' = Committed
    BY <1>1 DEF Committed
  <2> QED BY <1>1, <2>1, Unseen
<1>2. CASE UNCHANGED vars \/ CancelNative \/ CancelCoroutine \/ ReplaceSource \/ Die
           \/ Preflight \/ ScanDone
  BY <1>1, <1>2 DEF vars, CancelNative, CancelCoroutine, ReplaceSource, Die, Preflight, ScanDone
<1>3. CASE WriteHeader
  <2>1. manifest'.claims = manifest.claims /\ manifest'.terminal = manifest.terminal
    <3>1. /\ [manifest EXCEPT !.header = TRUE].claims = manifest.claims
          /\ [manifest EXCEPT !.header = TRUE].terminal = manifest.terminal
          /\ [manifest EXCEPT !.torn = TRUE].claims = manifest.claims
          /\ [manifest EXCEPT !.torn = TRUE].terminal = manifest.terminal
      BY ManifestWrites, Numbers
    <3> QED BY <1>3, <3>1 DEF WriteHeader
  <2>2. Committed' = Committed /\ UNCHANGED <<media, workspace, report>>
    BY <1>3 DEF WriteHeader, Committed
  <2> QED BY <2>1, <2>2, Unseen
<1>4. ASSUME NEW terminal \in {"cancelled", "failed"}, NEW answer, answer # "ok",
             pc \in Working, Finish(terminal, answer),
             UNCHANGED <<media, workspace, report>>, Committed' = Committed
      PROVE  [Contract!CNext]_Contract!cvars
  BY <1>4, FinishIsEnd
<1>5. CASE Align \/ Visit \/ Advance
  <2>1. pc \in Working /\ UNCHANGED <<media, documents, workspace, report>>
        /\ (\/ UNCHANGED manifest
            \/ Finish("cancelled", "cancelled") \/ Finish("failed", "decode_error"))
    BY <1>5 DEF Align, Visit, Advance, Interrupted, DecodeFailed, Working, Early, Scanning
  <2>2. Committed' = Committed
    BY <2>1 DEF Committed
  <2> QED BY <1>1, <1>4, <2>1, <2>2
<1>6. CASE OpenFrame
  <2>1. pc = "open" /\ UNCHANGED <<media, workspace, report>>
        /\ (\/ documents' = Opened /\ UNCHANGED manifest
            \/ Finish("failed", "output_error") /\ UNCHANGED documents)
    BY <1>6 DEF OpenFrame, Opened
  <2>2. Committed' = Committed
    <3>1. CASE documents' = Opened
      BY <2>1, <3>1, Numbers, Standing, OpeningAdds DEF Writing
    <3>2. CASE UNCHANGED documents
      BY <3>2 DEF Committed
    <3> QED BY <2>1, <3>1, <3>2
  <2>3. pc \in Working
    BY <2>1 DEF Working, Scanning, Writing
  <2> QED BY <1>4, <2>1, <2>2, <2>3, Unseen
<1>7. CASE EncodeFrame
  <2>1. pc = "encode" /\ UNCHANGED <<media, workspace, report>> /\ documents' \in Aborted
        /\ (UNCHANGED manifest \/ Finish("failed", "output_error"))
    BY <1>7 DEF EncodeFrame, Aborted
  <2>2. Committed' = Committed
    BY <2>1, AbortingLeaves, Numbers
  <2>3. pc \in Working
    BY <2>1 DEF Working, Scanning, Writing
  <2> QED BY <1>4, <2>1, <2>2, <2>3, Unseen
<1>8. CASE FinishComplete
  <2>1. pc \in Working /\ Claimed = Goal /\ Finish("complete", "ok")
        /\ UNCHANGED <<media, documents, workspace, report>>
    BY <1>8 DEF FinishComplete, Working, Claimed, Goal
  <2>2. Committed' = Committed
    BY <2>1 DEF Committed
  <2> QED BY <2>1, <2>2, FinishIsEnd
<1>9. CASE CommitFrame \/ WriteFrame \/ WriteRepresentative \/ Recheck \/ Close \/ CreateManifest
  BY <1>9, CommitIsStore, WriteIsClaim, RecheckIsDecide, CloseIsWithdraw, CreateIsWithdraw
<1> QED BY <1>2, <1>3, <1>5, <1>6, <1>7, <1>8, <1>9 DEF Next, Step

LEMMA InvAlways == Spec => [](ExportInv /\ PixelInv)
<1>1. ExportInv /\ PixelInv /\ [Next]_vars => (ExportInv /\ PixelInv)'
  BY StepInv, StepShows
<1> QED BY <1>1, InitInv, PTL DEF Spec

\* Whatever fails and whenever the process dies, a workspace is committed only
\* with a manifest that holds no part of a record (shouldPreserveFailureManifest).
THEOREM NoTornManifestIsEverKept == Spec => []NoTornManifestIsKept
<1>1. ExportInv => NoTornManifestIsKept
  BY DEF ExportInv, OutcomeInv
<1> QED BY <1>1, InvAlways, PTL

\* A scan that reaches its end has recorded every planned frame, in order, so
\* finish_complete refuses no export for its count.
THEOREM ScanAlwaysRecordsAll == Spec => []ScanRecordsAll
<1>1. ExportInv => ScanRecordsAll
  BY AllClaimed DEF ExportInv, ScanInv, ScanRecordsAll
<1> QED BY <1>1, InvAlways, PTL

\* Every document reconciles with its row of the index, and shows exactly its
\* frame while the source is the one that was indexed and its clean keyframes
\* can be told apart, wherever a seek lands (require_matching_entry).
THEOREM ExportIsAlwaysExact == Spec => []ExportIsExact
<1>1. PixelInv => ExportIsExact
  BY DEF PixelInv, ExportIsExact, Shows, Same
<1> QED BY <1>1, InvAlways, PTL

\* The export implements its contract: artifacts in plan order, claims only of
\* what is stored, success only of a complete export that was kept.
THEOREM ExportImplementsContract == Spec => KeepsContract
<1>1. Spec => [][Contract!CNext]_Contract!cvars
  <2>1. ExportInv /\ [Next]_vars => [Contract!CNext]_Contract!cvars
    BY StepKeepsContract
  <2> QED BY <2>1, InvAlways, PTL DEF Spec
<1>2. Init => Contract!CInit
  BY InitInv
<1> QED BY <1>1, <1>2, PTL DEF Spec, KeepsContract, Contract!CSpec
=============================================================================
