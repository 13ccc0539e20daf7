--------------------------- MODULE PreviewsProofs ---------------------------
(***************************************************************************)
(* The previews keep their slots and their meta-files straight for any     *)
(* number of requests, files and slots.                                    *)
(***************************************************************************)
EXTENDS Previews, TLAPS

\* A request past its first lock is at one of the files, without a slot unless
\* it generates.
AtFile ==
    /\ \A v \in Viewers : view[v].pc # "idle" => view[v].file \in Files
    /\ \A p \in Posters : post[p].pc # "idle" => post[p].file \in Files

\* A request that was beaten to a preview which is not there has seen the
\* generation fail, or it still goes on.
BeatenKnows ==
    \A v \in Viewers :
        /\ view[v].pc \in {"lock", "wait"}
        /\ view[v].beaten
        /\ cache[view[v].file] = "none"
        => v \in failed \/ gen_pending(view[v].file)

\* A preview that a posting linked is there; meta-files are stored or held only
\* of contents whose preview was linked so, and held only until the batch.
Extracting ==
    /\ \A f \in linked : cache[f] # "none"
    /\ metas \subseteq linked
    /\ \A p \in Posters :
          /\ Holds(p, post[p].file) => post[p].file \in linked
          /\ post[p].meta => post[p].pc = "store"

\* Pages show only what is listed, so the preview of a content that is not
\* listed was linked by a posting.
FirstLinked ==
    /\ \A v \in Viewers : view[v].pc # "idle" => stored[view[v].file] # "none"
    /\ \A f \in Files : stored[f] = "none" => cache[f] = "none" \/ f \in linked

\* In a life without faults, what was linked is kept, and a text is posted
\* without meta-file only when its preview was there already.
Faultless ==
    faults = 0 =>
        /\ \A f \in linked : Kept(f)
        /\ \A p \in Posters :
              post[p].pc = "store" /\ post[p].type = "text" /\ ~post[p].meta
              => cache[post[p].file] # "none"

\* The inductive invariant.
PInv ==
    /\ TypeOK
    /\ AtFile
    /\ SlotsExact
    /\ WaitersWoken
    /\ EmptyMeansFailed
    /\ BeatenKnows
    /\ Extracting
    /\ MetaOnce
    /\ FirstLinked
    /\ Faultless
    /\ PostedIndexed

-----------------------------------------------------------------------------
\* Nobody looks at a preview and nothing is posted when the process starts.
LEMMA InitPInv == Init => PInv
<1> SUFFICES ASSUME Init PROVE PInv
  OBVIOUS
<1>1. TypeOK
  BY PreviewsAssumption DEF Init, TypeOK, Types, Out, Gone
<1>2. AtFile /\ SlotsExact /\ WaitersWoken /\ EmptyMeansFailed /\ BeatenKnows
  BY PreviewsAssumption DEF Init, AtFile, SlotsExact, WaitersWoken, EmptyMeansFailed,
     BeatenKnows, Generating, Out, Gone
<1>3. Extracting /\ MetaOnce
  BY DEF Init, Extracting, MetaOnce, Holds, Gone
<1>4. FirstLinked /\ Faultless /\ PostedIndexed
  BY DEF Init, FirstLinked, Faultless, PostedIndexed, Out, Gone
<1> QED
  BY <1>1, <1>2, <1>3, <1>4 DEF PInv

\* The records of requests and postings.
Requests == [pc : {"idle", "lock", "wait", "convert", "generic", "release", "again"},
             file : Files \cup {NoFile}, beaten : BOOLEAN, slot : {0} \cup Slots]

Postings == [pc : {"idle", "convert", "link", "end", "store"},
             file : Files \cup {NoFile}, type : Types, meta : BOOLEAN]

\* Assignments of fields of different types keep the records' types.
LEMMA FieldsKept ==
  ASSUME view \in [Viewers -> Requests], post \in [Posters -> Postings]
  PROVE  /\ \A v \in Viewers, b \in BOOLEAN :
                [view EXCEPT ![v].pc = "wait", ![v].beaten = b] \in [Viewers -> Requests]
         /\ \A v \in Viewers, s \in Slots :
                [view EXCEPT ![v].pc = "convert", ![v].slot = s] \in [Viewers -> Requests]
         /\ \A v \in Viewers, q \in {"generic", "release", "again"} :
                [view EXCEPT ![v].pc = q] \in [Viewers -> Requests]
         /\ \A v \in Viewers : [view[v] EXCEPT !.pc = "again", !.slot = 0] \in Requests
         /\ \A p \in Posters :
                [post EXCEPT ![p].pc = "store", ![p].meta = TRUE] \in [Posters -> Postings]
<1>1. ASSUME NEW v \in Viewers, NEW b \in BOOLEAN
      PROVE  [view EXCEPT ![v].pc = "wait", ![v].beaten = b] \in [Viewers -> Requests]
  BY DEF Requests
<1>2. ASSUME NEW v \in Viewers, NEW s \in Slots
      PROVE  [view EXCEPT ![v].pc = "convert", ![v].slot = s] \in [Viewers -> Requests]
  BY DEF Requests
<1>3. ASSUME NEW v \in Viewers PROVE [view[v] EXCEPT !.pc = "again", !.slot = 0] \in Requests
  BY DEF Requests
<1>4. ASSUME NEW p \in Posters
      PROVE  [post EXCEPT ![p].pc = "store", ![p].meta = TRUE] \in [Posters -> Postings]
  BY DEF Postings
<1>5. ASSUME NEW v \in Viewers, NEW q \in {"generic", "release", "again"}
      PROVE  [view EXCEPT ![v].pc = q] \in [Viewers -> Requests]
  BY DEF Requests
<1> QED
  BY <1>1, <1>2, <1>3, <1>4, <1>5

\* Types are kept.
LEMMA TypeKept == TypeOK /\ AtFile /\ [Next]_vars => TypeOK'
<1> SUFFICES ASSUME TypeOK, AtFile, [Next]_vars PROVE TypeOK'
  OBVIOUS
<1> DEFINE Rest == /\ cache \in [Files -> {"none", "rich", "generic"}]
                   /\ stored \in [Files -> {"none"} \cup Types]
                   /\ metas \subseteq Files /\ linked \subseteq Files
                   /\ pending \in [Slots -> Files \cup {NoFile}]
                   /\ faults \in 0..MaxFaults
                   /\ failed \subseteq Viewers
<1>a. view \in [Viewers -> Requests] /\ post \in [Posters -> Postings] /\ Rest
  BY DEF TypeOK, Requests, Postings
<1>b. SUFFICES view' \in [Viewers -> Requests] /\ post' \in [Posters -> Postings] /\ Rest'
  BY DEF TypeOK, Requests, Postings
<1> USE <1>a, PreviewsAssumption
<1>1. ASSUME NEW v \in Viewers, NEW f \in Page[v], View(v, f)
      PROVE  view' \in [Viewers -> Requests] /\ post' \in [Posters -> Postings] /\ Rest'
  <2>1. f \in Files
    OBVIOUS
  <2>2. view' \in [Viewers -> Requests]
    BY <1>1, <2>1 DEF View, Requests, Out
  <2> QED
    BY <1>1, <2>2 DEF View, postVars
<1>2. ASSUME NEW v \in Viewers, Runs(v)
      PROVE  view' \in [Viewers -> Requests] /\ post' \in [Posters -> Postings] /\ Rest'
  <2>1. CASE Answer(v)
    <3>1. view' \in [Viewers -> Requests]
      BY <2>1 DEF Answer, Requests, Out
    <3> QED
      BY <2>1, <3>1 DEF Answer, postVars
  <2>2. CASE Lock(v)
    <3>1. view' \in [Viewers -> Requests]
      <4>1. ASSUME NEW b \in BOOLEAN, Wait(v, b) PROVE view' \in [Viewers -> Requests]
        BY <4>1, FieldsKept DEF Wait
      <4>2. CASE view' = [view EXCEPT ![v].pc = "again"]
        BY <4>2, FieldsKept
      <4>3. ASSUME NEW s \in gen_available,
                   view' = [view EXCEPT ![v].pc = "convert", ![v].slot = s]
            PROVE  view' \in [Viewers -> Requests]
        <5>1. s \in Slots
          BY <4>3 DEF gen_available
        <5> QED
          BY <4>3, <5>1, FieldsKept
      <4> QED
        BY <2>2, <4>1, <4>2, <4>3 DEF Lock
    <3>2. view[v].file \in Files
      BY <2>2 DEF Lock, AtFile
    <3>3. pending' \in [Slots -> Files \cup {NoFile}]
      BY <2>2, <3>2 DEF Lock, Wait, gen_available
    <3> QED
      BY <2>2, <3>1, <3>3 DEF Lock, postVars
  <2>3. CASE Convert(v)
    <3>1. view' \in [Viewers -> Requests]
      <4>1. PICK q \in {"generic", "release", "again"} : view' = [view EXCEPT ![v].pc = q]
        BY <2>3 DEF Convert, ViewAt
      <4>2. [view EXCEPT ![v].pc = q] \in [Viewers -> Requests]
        BY FieldsKept
      <4> QED
        BY <4>1, <4>2
    <3>2. cache' \in [Files -> {"none", "rich", "generic"}]
      BY <2>3 DEF Convert, Linked
    <3> QED
      BY <2>3, <3>1, <3>2 DEF Convert, postVars
  <2>4. CASE Generic(v)
    <3>1. view' \in [Viewers -> Requests]
      BY <2>4, FieldsKept DEF Generic, ViewAt
    <3>2. cache' \in [Files -> {"none", "rich", "generic"}]
      BY <2>4 DEF Generic, Linked
    <3> QED
      BY <2>4, <3>1, <3>2 DEF Generic, postVars
  <2>5. CASE Release(v)
    <3>1. \A w \in Viewers : Broadcast(view[w]) \in Requests
      BY DEF Broadcast, Requests
    <3>2. [view[v] EXCEPT !.pc = "again", !.slot = 0] \in Requests
      BY FieldsKept
    <3>3. view' \in [Viewers -> Requests]
      BY <2>5, <3>1, <3>2 DEF Release
    <3> QED
      BY <2>5, <3>3 DEF Release, postVars
  <2> QED
    BY <1>2, <2>1, <2>2, <2>3, <2>4, <2>5 DEF Runs
<1>3. ASSUME NEW v \in Viewers, InfoFails(v) \/ ConvertFails(v) \/ GenericFails(v)
      PROVE  view' \in [Viewers -> Requests] /\ post' \in [Posters -> Postings] /\ Rest'
  <2>1. PICK q \in {"generic", "release", "again"} : view' = [view EXCEPT ![v].pc = q]
    BY <1>3 DEF InfoFails, ConvertFails, GenericFails, ViewAt
  <2>2. view' \in [Viewers -> Requests]
    <3>1. [view EXCEPT ![v].pc = q] \in [Viewers -> Requests]
      BY FieldsKept
    <3> QED
      BY <2>1, <3>1
  <2>3. faults' \in 0..MaxFaults
    BY <1>3 DEF InfoFails, ConvertFails, GenericFails, Fault
  <2> QED
    BY <1>3, <2>2, <2>3 DEF InfoFails, ConvertFails, GenericFails, postVars
<1>4. ASSUME NEW p \in Posters, NEW x \in Posts, Post(p, x[1], x[2])
      PROVE  view' \in [Viewers -> Requests] /\ post' \in [Posters -> Postings] /\ Rest'
  <2>1. x[1] \in Files /\ x[2] \in Types
    BY DEF Types
  <2>2. post' \in [Posters -> Postings]
    BY <1>4, <2>1 DEF Post, Postings, Gone
  <2> QED
    BY <1>4, <2>2 DEF Post
<1>5. ASSUME NEW p \in Posters, PostLink(p)
      PROVE  view' \in [Viewers -> Requests] /\ post' \in [Posters -> Postings] /\ Rest'
  <2>1. post[p].file \in Files
    BY <1>5 DEF PostLink, AtFile
  <2>2. post' \in [Posters -> Postings]
    BY <1>5 DEF PostLink, PostAt, Postings
  <2>3. cache' \in [Files -> {"none", "rich", "generic"}] /\ linked' \subseteq Files
    BY <1>5, <2>1 DEF PostLink, Linked
  <2> QED
    BY <1>5, <2>2, <2>3 DEF PostLink
<1>6. ASSUME NEW p \in Posters,
             \/ PostConvert(p) \/ PostEnd(p) \/ PostStore(p)
             \/ PostConvertFails(p) \/ PostFails(p)
      PROVE  view' \in [Viewers -> Requests] /\ post' \in [Posters -> Postings] /\ Rest'
  <2>1. post[p].file \in Files /\ post[p].type \in Types
    BY <1>6 DEF PostConvert, PostEnd, PostStore, PostConvertFails, PostFails, PostAt, AtFile,
       Postings
  <2>2. post' \in [Posters -> Postings]
    <3>1. CASE post' = [post EXCEPT ![p] = Gone]
      BY <3>1 DEF Postings, Gone, Types
    <3>2. CASE \E pc \in {"link", "store"} : post' = [post EXCEPT ![p].pc = pc]
      BY <3>2 DEF Postings
    <3>3. CASE post' = [post EXCEPT ![p].pc = "store", ![p].meta = TRUE]
      BY <3>3, FieldsKept
    <3> QED
      BY <1>6, <3>1, <3>2, <3>3 DEF PostConvert, PostEnd, PostStore, PostConvertFails,
         PostFails, PostAt
  <2>3. stored' \in [Files -> {"none"} \cup Types] /\ metas' \subseteq Files
    BY <1>6, <2>1 DEF PostConvert, PostEnd, PostStore, PostConvertFails, PostFails
  <2>4. faults' \in 0..MaxFaults
    BY <1>6 DEF PostConvert, PostEnd, PostStore, PostConvertFails, PostFails, Fault
  <2>5. UNCHANGED <<view, cache, pending, failed, linked>>
    BY <1>6 DEF PostConvert, PostEnd, PostStore, PostConvertFails, PostFails
  <2> QED
    BY <2>2, <2>3, <2>4, <2>5
<1>7. ASSUME NEW x \in Uploads, Upload(x[1], x[2])
      PROVE  view' \in [Viewers -> Requests] /\ post' \in [Posters -> Postings] /\ Rest'
  <2>1. x[1] \in Files /\ x[2] \in Types
    BY DEF Types
  <2> QED
    BY <1>7, <2>1 DEF Upload
<1>8. CASE Restart
  <2>1. view' \in [Viewers -> Requests] /\ post' \in [Posters -> Postings]
    BY <1>8 DEF Restart, Requests, Postings, Out, Gone, Types
  <2>2. faults' \in 0..MaxFaults
    BY <1>8 DEF Restart, Fault
  <2> QED
    BY <1>8, <2>1, <2>2 DEF Restart
<1>9. CASE UNCHANGED vars
  BY <1>9 DEF vars
<1> QED
  BY <1>1, <1>2, <1>3, <1>4, <1>5, <1>6, <1>7, <1>8, <1>9 DEF Next

-----------------------------------------------------------------------------
\* What is said of page requests.
ViewsOK ==
    /\ \A v \in Viewers : view[v].pc # "idle" => view[v].file \in Files
    /\ SlotsExact
    /\ WaitersWoken
    /\ EmptyMeansFailed
    /\ BeatenKnows

\* A step that at most adds previews leaves the requests as they are.
LEMMA ViewsUndisturbed ==
  ASSUME TypeOK, ViewsOK,
         UNCHANGED <<view, pending, failed>>,
         \A f \in Files : cache'[f] = "none" => cache[f] = "none"
  PROVE  ViewsOK'
<1> USE DEF ViewsOK, TypeOK
<1>1. SlotsExact' /\ WaitersWoken'
  BY DEF SlotsExact, WaitersWoken, Generating, gen_pending
<1>2. EmptyMeansFailed' /\ BeatenKnows'
  BY DEF EmptyMeansFailed, BeatenKnows, gen_pending
<1> QED
  BY <1>1, <1>2

\* A request that goes from one place where it generates to the next keeps its
\* slot, whatever it linked.
LEMMA GeneratingOn ==
  ASSUME TypeOK, ViewsOK,
         NEW v \in Viewers, v \in Generating,
         NEW to \in {"generic", "release"},
         view' = [view EXCEPT ![v].pc = to],
         UNCHANGED <<pending, failed>>,
         \A f \in Files : cache'[f] = "none" => cache[f] = "none"
  PROVE  ViewsOK'
<1> USE DEF ViewsOK, TypeOK
<1>1. \A w \in Viewers : /\ view'[w].file = view[w].file
                         /\ view'[w].slot = view[w].slot
                         /\ view'[w].beaten = view[w].beaten
                         /\ w # v => view'[w] = view[w]
  OBVIOUS
<1>2. view'[v].pc = to
  OBVIOUS
<1>3. Generating' = Generating
  BY <1>1, <1>2 DEF Generating
<1>4. SlotsExact'
  BY <1>1, <1>3 DEF SlotsExact
<1>5. WaitersWoken'
  BY <1>1, <1>2, <1>3 DEF WaitersWoken, gen_pending
<1>6. EmptyMeansFailed' /\ BeatenKnows'
  BY <1>1, <1>2 DEF EmptyMeansFailed, BeatenKnows, gen_pending
<1>7. \A w \in Viewers : view'[w].pc # "idle" => view'[w].file \in Files
  BY <1>1, <1>2 DEF Generating
<1> QED
  BY <1>4, <1>5, <1>6, <1>7

\* A request that does not generate, neither before nor after.
LEMMA NotGenerating ==
  ASSUME TypeOK, ViewsOK,
         NEW v \in Viewers, v \notin Generating,
         NEW r \in Requests, r.pc \in {"idle", "lock", "again"},
         view' = [view EXCEPT ![v] = r],
         UNCHANGED <<pending, cache>>,
         \A w \in Viewers \ {v} : w \in failed => w \in failed',
         r.pc # "idle" => r.file \in Files,
         r.pc = "lock" => ~r.beaten,
         r.pc = "again" /\ cache[r.file] = "none" => v \in failed'
  PROVE  ViewsOK'
<1> USE DEF ViewsOK, TypeOK
<1>1. \A w \in Viewers \ {v} : view'[w] = view[w]
  OBVIOUS
<1>2. view'[v] = r
  OBVIOUS
<1>3. Generating' = Generating
  BY <1>1, <1>2 DEF Generating
<1>4. SlotsExact'
  BY <1>1, <1>3 DEF SlotsExact, Generating
<1>5. WaitersWoken'
  BY <1>1, <1>2, <1>3 DEF WaitersWoken, gen_pending
<1>6. EmptyMeansFailed' /\ BeatenKnows'
  BY <1>1, <1>2 DEF EmptyMeansFailed, BeatenKnows, gen_pending
<1>7. \A w \in Viewers : view'[w].pc # "idle" => view'[w].file \in Files
  BY <1>1, <1>2
<1> QED
  BY <1>4, <1>5, <1>6, <1>7

\* Once round the loop of gen_preview: the request waits, comes back, or takes
\* a slot that was free for a file that nobody was at.
LEMMA LockKeeps == ASSUME TypeOK, ViewsOK, NEW v \in Viewers, Lock(v) PROVE ViewsOK'
<1>1. /\ v \notin Generating /\ view[v].file \in Files /\ view[v].pc = "lock"
      /\ \A w \in Generating : w \in Viewers
  BY DEF Lock, Generating, ViewsOK, TypeOK
<1>2. UNCHANGED <<cache, failed>>
  BY DEF Lock, ViewsOK, TypeOK
<1>3. ASSUME NEW beaten \in BOOLEAN, Wait(v, beaten),
             IF beaten THEN gen_pending(view[v].file)
                       ELSE gen_available = {} /\ ~gen_pending(view[v].file)
      PROVE  ViewsOK'
  <2>1. \A w \in Viewers \ {v} : view'[w] = view[w]
    BY <1>3 DEF Wait, ViewsOK, TypeOK
  <2>2. view'[v].pc = "wait" /\ view'[v].beaten = beaten /\ view'[v].file = view[v].file
    BY <1>3 DEF Wait, ViewsOK, TypeOK
  <2>3. UNCHANGED pending
    BY <1>3 DEF Wait, ViewsOK, TypeOK
  <2>4. Generating' = Generating
    BY <1>1, <2>1, <2>2 DEF Generating, ViewsOK, TypeOK
  <2>5. SlotsExact'
    BY <1>1, <2>1, <2>3, <2>4 DEF SlotsExact, ViewsOK
  <2>6. ~beaten => Generating # {}
    <3>1. SUFFICES ASSUME ~beaten PROVE Generating # {}
      OBVIOUS
    <3>2. \E s \in Slots : pending[s] # NoFile
      <4>1. \E s \in Slots : s = 1
        BY PreviewsAssumption DEF Slots, ViewsOK, TypeOK
      <4>2. pending[1] # NoFile
        <5> SUFFICES ASSUME pending[1] = NoFile PROVE 1 \in gen_available
          BY <1>3, <3>1
        <5>1. 1..(1 - 1) = {}
          OBVIOUS
        <5> QED
          BY <4>1, <5>1 DEF gen_available
      <4> QED
        BY <4>1, <4>2 DEF ViewsOK, TypeOK
    <3> QED
      BY <3>2 DEF SlotsExact, ViewsOK, TypeOK
  <2>7. WaitersWoken'
    BY <1>3, <2>1, <2>2, <2>3, <2>4, <2>6 DEF WaitersWoken, gen_pending, ViewsOK, TypeOK
  <2>8. EmptyMeansFailed' /\ BeatenKnows'
    BY <1>2, <1>3, <2>1, <2>2, <2>3 DEF EmptyMeansFailed, BeatenKnows, gen_pending, ViewsOK, TypeOK
  <2>9. \A w \in Viewers : view'[w].pc # "idle" => view'[w].file \in Files
    BY <1>1, <2>1, <2>2 DEF ViewsOK, TypeOK
  <2> QED
    BY <2>5, <2>7, <2>8, <2>9 DEF ViewsOK, TypeOK
<1>4. ASSUME ~gen_pending(view[v].file), view[v].beaten,
             view' = [view EXCEPT ![v].pc = "again"], UNCHANGED pending
      PROVE  ViewsOK'
  <2>1. cache[view[v].file] = "none" => v \in failed
    BY <1>1, <1>4 DEF BeatenKnows, ViewsOK, TypeOK
  <2> DEFINE r == [view[v] EXCEPT !.pc = "again"]
  <2>2. /\ view' = [view EXCEPT ![v] = r] /\ r.pc = "again" /\ r.file = view[v].file
        /\ r \in Requests
    BY <1>4 DEF TypeOK, Requests
  <2>3. (r.pc = "lock" => ~r.beaten) /\ r.pc \in {"idle", "lock", "again"}
    BY <2>2
  <2>4. r.pc # "idle" => r.file \in Files
    BY <1>1, <2>2
  <2>5. r.pc = "again" /\ cache[r.file] = "none" => v \in failed'
    BY <1>2, <2>1, <2>2
  <2>6. UNCHANGED <<pending, cache>> /\ (\A w \in Viewers \ {v} : w \in failed => w \in failed')
    BY <1>2, <1>4
  <2> HIDE DEF r
  <2> QED
    BY <1>1, <2>2, <2>3, <2>4, <2>5, <2>6, NotGenerating
<1>5. ASSUME ~gen_pending(view[v].file), ~view[v].beaten, NEW s \in gen_available,
             pending' = [pending EXCEPT ![s] = view[v].file],
             view' = [view EXCEPT ![v].pc = "convert", ![v].slot = s]
      PROVE  ViewsOK'
  <2>1. s \in Slots /\ pending[s] = NoFile
    BY <1>5 DEF gen_available, ViewsOK, TypeOK
  <2>2. \A w \in Viewers \ {v} : view'[w] = view[w]
    BY <1>5 DEF ViewsOK, TypeOK
  <2>3. /\ view'[v].pc = "convert" /\ view'[v].slot = s
        /\ view'[v].beaten = view[v].beaten /\ view'[v].file = view[v].file
    BY <1>5 DEF ViewsOK, TypeOK
  <2>4. Generating' = Generating \cup {v}
    BY <2>2, <2>3 DEF Generating, ViewsOK, TypeOK
  <2>5. \A w \in Generating : view[w].slot # s /\ view[w].file # view[v].file /\ w # v
    <3> SUFFICES ASSUME NEW w \in Generating
                 PROVE  view[w].slot # s /\ view[w].file # view[v].file /\ w # v
      OBVIOUS
    <3>1. w \in Viewers /\ view[w].file \in Files /\ pending[view[w].slot] = view[w].file
          /\ view[w].slot \in Slots
      BY DEF Generating, SlotsExact, ViewsOK, TypeOK
    <3> QED
      BY <1>1, <1>5, <2>1, <3>1, PreviewsAssumption DEF gen_pending, ViewsOK, TypeOK
  <2>6. pending'[s] = view[v].file /\ \A t \in Slots \ {s} : pending'[t] = pending[t]
    BY <1>5, <2>1 DEF ViewsOK, TypeOK
  <2>7. SlotsExact'
    <3>1. \A w \in Generating' : view'[w].slot \in Slots /\ pending'[view'[w].slot] = view'[w].file
      BY <2>1, <2>2, <2>3, <2>4, <2>5, <2>6 DEF SlotsExact, Generating, ViewsOK, TypeOK
    <3>2. \A t \in Slots : pending'[t] # NoFile => \E w \in Generating' : view'[w].slot = t
      BY <2>1, <2>2, <2>3, <2>4, <2>5, <2>6 DEF SlotsExact, Generating, ViewsOK, TypeOK
    <3>3. \A w, x \in Generating' : view'[w].file = view'[x].file => w = x
      BY <2>2, <2>3, <2>4, <2>5 DEF SlotsExact, Generating, ViewsOK, TypeOK
    <3> QED
      BY <3>1, <3>2, <3>3 DEF SlotsExact, ViewsOK, TypeOK
  <2>8. \A f \in Files : gen_pending(f) => gen_pending(f)'
    BY <2>1, <2>6, PreviewsAssumption DEF gen_pending, ViewsOK, TypeOK
  <2>9. WaitersWoken'
    BY <2>2, <2>3, <2>4, <2>8 DEF WaitersWoken, ViewsOK, TypeOK
  <2>10. EmptyMeansFailed' /\ BeatenKnows'
    BY <1>2, <2>2, <2>3, <2>8 DEF EmptyMeansFailed, BeatenKnows, ViewsOK, TypeOK
  <2>11. \A w \in Viewers : view'[w].pc # "idle" => view'[w].file \in Files
    BY <1>1, <2>2, <2>3 DEF ViewsOK, TypeOK
  <2> QED
    BY <2>7, <2>9, <2>10, <2>11 DEF ViewsOK, TypeOK
<1> QED
  BY <1>3, <1>4, <1>5 DEF Lock, ViewsOK, TypeOK

\* The slot goes and everybody who waits is woken; who was beaten by this
\* request finds the preview, or knows that it failed.
LEMMA ReleaseKeeps == ASSUME TypeOK, ViewsOK, NEW v \in Viewers, Release(v) PROVE ViewsOK'
<1> USE DEF ViewsOK, TypeOK
<1> DEFINE f == view[v].file
           s == view[v].slot
<1>1. v \in Generating /\ f \in Files /\ s \in Slots /\ pending[s] = f
  BY DEF Release, Generating, SlotsExact
<1>2. pending'[s] = NoFile /\ \A t \in Slots \ {s} : pending'[t] = pending[t]
  BY <1>1 DEF Release
<1>3. /\ view'[v].pc = "again" /\ view'[v].file = f
      /\ \A w \in Viewers \ {v} : /\ view'[w].file = view[w].file
                                  /\ view'[w].slot = view[w].slot
                                  /\ view'[w].beaten = view[w].beaten
                                  /\ view'[w].pc = IF view[w].pc = "wait" THEN "lock"
                                                   ELSE view[w].pc
  BY DEF Release, Broadcast
<1>4. /\ UNCHANGED cache
      /\ failed \subseteq failed'
      /\ cache[f] = "none" => \A w \in Viewers : view[w].file = f => w \in failed'
  BY DEF Release
<1>5. Generating' = Generating \ {v}
  BY <1>3 DEF Generating
<1>6. \A w \in Generating \ {v} : view[w].slot # s /\ view[w].file # f
  BY <1>1 DEF SlotsExact, Generating
<1>7. SlotsExact'
  <2>1. \A w \in Generating' : view'[w].slot \in Slots /\ pending'[view'[w].slot] = view'[w].file
    BY <1>2, <1>3, <1>5, <1>6 DEF SlotsExact, Generating
  <2>2. \A t \in Slots : pending'[t] # NoFile => \E w \in Generating' : view'[w].slot = t
    BY <1>2, <1>3, <1>5, <1>6 DEF SlotsExact, Generating
  <2>3. \A w, x \in Generating' : view'[w].file = view'[x].file => w = x
    BY <1>3, <1>5 DEF SlotsExact, Generating
  <2> QED
    BY <2>1, <2>2, <2>3 DEF SlotsExact
<1>8. WaitersWoken'
  BY <1>3 DEF WaitersWoken
<1>9. EmptyMeansFailed'
  <2>1. ASSUME NEW w \in Viewers \ {v}, view'[w].pc = "again", cache'[view'[w].file] = "none"
        PROVE  w \in failed'
    BY <1>3, <1>4, <2>1 DEF EmptyMeansFailed
  <2>2. cache'[view'[v].file] = "none" => v \in failed'
    BY <1>3, <1>4
  <2> QED
    BY <2>1, <2>2 DEF EmptyMeansFailed
<1>10. BeatenKnows'
  <2> SUFFICES ASSUME NEW w \in Viewers, view'[w].pc \in {"lock", "wait"}, view'[w].beaten,
                      cache'[view'[w].file] = "none"
               PROVE  w \in failed' \/ gen_pending(view[w].file)'
    BY DEF BeatenKnows
  <2>1. /\ w # v /\ view[w].pc \in {"lock", "wait"} /\ view[w].beaten
        /\ view'[w].file = view[w].file /\ cache[view[w].file] = "none"
    BY <1>3, <1>4
  <2>2. CASE view[w].file = f
    BY <1>4, <2>1, <2>2
  <2>3. CASE view[w].file # f
    <3>1. w \in failed \/ gen_pending(view[w].file)
      BY <2>1 DEF BeatenKnows
    <3>2. gen_pending(view[w].file) => gen_pending(view[w].file)'
      BY <1>1, <1>2, <2>1, <2>3 DEF gen_pending
    <3> QED
      BY <1>4, <2>1, <3>1, <3>2 DEF gen_pending
  <2> QED
    BY <2>2, <2>3
<1>11. \A w \in Viewers : view'[w].pc # "idle" => view'[w].file \in Files
  BY <1>1, <1>3
<1> QED
  BY <1>7, <1>8, <1>9, <1>10, <1>11

\* Every step keeps what is said of page requests.
LEMMA ViewsKept == TypeOK /\ TypeOK' /\ AtFile /\ ViewsOK /\ [Next]_vars => ViewsOK'
<1> SUFFICES ASSUME TypeOK, TypeOK', AtFile, ViewsOK, [Next]_vars PROVE ViewsOK'
  OBVIOUS
<1>1. ASSUME NEW v \in Viewers, NEW f \in Page[v], View(v, f) PROVE ViewsOK'
  <2> DEFINE r == [Out EXCEPT !.pc = "lock", !.file = f]
  <2>1. f \in Files
    BY PreviewsAssumption DEF TypeOK
  <2>2. r.pc = "lock" /\ r.file = f /\ r.pc # "idle" /\ r.pc # "again" /\ ~r.beaten
    BY DEF Out
  <2>5. r \in Requests
    BY <2>1 DEF Out, Requests
  <2>3. view' = [view EXCEPT ![v] = r] /\ v \notin Generating
    BY <1>1 DEF View, Generating, TypeOK
  <2>4. UNCHANGED <<pending, cache, failed>>
    BY <1>1 DEF View, TypeOK
  <2> HIDE DEF r
  <2> QED
    BY <2>1, <2>2, <2>3, <2>4, <2>5, NotGenerating
<1>2. ASSUME NEW v \in Viewers, Answer(v) PROVE ViewsOK'
  <2>1. Out.pc = "idle" /\ Out \in Requests
    BY DEF Out, Requests
  <2>2. view' = [view EXCEPT ![v] = Out] /\ v \notin Generating
    BY <1>2 DEF Answer, Generating, TypeOK
  <2>3. UNCHANGED <<pending, cache>> /\ (\A w \in Viewers \ {v} : w \in failed => w \in failed')
    BY <1>2 DEF Answer
  <2>4. ~Out.beaten /\ Out.pc # "again" /\ Out.pc \in {"idle", "lock", "again"}
    BY DEF Out
  <2> QED
    BY <2>1, <2>2, <2>3, <2>4, NotGenerating
<1>3. ASSUME NEW v \in Viewers,
             \/ Convert(v) \/ Generic(v)
             \/ InfoFails(v) \/ ConvertFails(v) \/ GenericFails(v)
      PROVE  ViewsOK'
  <2>1. v \in Generating
    BY <1>3 DEF Convert, Generic, InfoFails, ConvertFails, GenericFails, ViewAt, Generating, TypeOK
  <2>2. \E to \in {"generic", "release"} : view' = [view EXCEPT ![v].pc = to]
    BY <1>3 DEF Convert, Generic, InfoFails, ConvertFails, GenericFails, ViewAt, TypeOK
  <2>3. UNCHANGED <<pending, failed>>
    BY <1>3 DEF Convert, Generic, InfoFails, ConvertFails, GenericFails, ViewAt, TypeOK
  <2>4. \A f \in Files : cache'[f] = "none" => cache[f] = "none"
    BY <1>3 DEF Convert, Generic, InfoFails, ConvertFails, GenericFails, ViewAt, Linked, TypeOK
  <2> QED
    BY <2>1, <2>2, <2>3, <2>4, GeneratingOn
<1>4. ASSUME NEW p \in Posters,
             \/ \E x \in Posts : Post(p, x[1], x[2])
             \/ PostConvert(p) \/ PostLink(p) \/ PostEnd(p) \/ PostStore(p)
             \/ PostConvertFails(p) \/ PostFails(p)
      PROVE  ViewsOK'
  <2>1. UNCHANGED <<view, pending, failed>>
    BY <1>4 DEF Post, PostConvert, PostLink, PostEnd, PostStore, PostConvertFails, PostFails, TypeOK
  <2>2. \A f \in Files : cache'[f] = "none" => cache[f] = "none"
    BY <1>4 DEF Post, PostConvert, PostLink, PostEnd, PostStore, PostConvertFails, PostFails,
       PostAt, Linked, TypeOK
  <2> QED
    BY <2>1, <2>2, ViewsUndisturbed
<1>5. ASSUME NEW x \in Uploads, Upload(x[1], x[2]) PROVE ViewsOK'
  BY <1>5, ViewsUndisturbed DEF Upload
<1>6. CASE Restart
  BY <1>6, PreviewsAssumption DEF Restart, Out, ViewsOK, SlotsExact, WaitersWoken,
     EmptyMeansFailed, BeatenKnows, Generating, TypeOK
<1>7. CASE UNCHANGED vars
  BY <1>7, ViewsUndisturbed DEF vars
<1> QED
  BY <1>1, <1>2, <1>3, <1>4, <1>5, <1>6, <1>7, LockKeeps, ReleaseKeeps DEF Next, Runs

-----------------------------------------------------------------------------
\* What is said of postings.
PostsOK ==
    /\ \A p \in Posters : post[p].pc # "idle" => post[p].file \in Files
    /\ Extracting
    /\ MetaOnce

\* A step that at most adds previews leaves the postings as they are.
LEMMA PostsUndisturbed ==
  ASSUME TypeOK, PostsOK,
         UNCHANGED <<post, metas, linked>>,
         \A f \in Files : cache'[f] = "none" => cache[f] = "none"
  PROVE  PostsOK'
<1>1. Extracting'
  BY DEF PostsOK, Extracting, Holds, TypeOK
<1>2. MetaOnce'
  BY DEF PostsOK, MetaOnce, Holds
<1> QED
  BY <1>1, <1>2 DEF PostsOK

\* A posting goes on, or ends, without a meta-file: with or without one before.
LEMMA PostsWithout ==
  ASSUME TypeOK, PostsOK,
         NEW p \in Posters,
         NEW r \in Postings, r.meta = FALSE, r.pc # "end", r.pc # "idle" => r.file \in Files,
         post' = [post EXCEPT ![p] = r],
         UNCHANGED <<cache, linked>>,
         \/ metas' = metas
         \/ metas' = metas \cup {post[p].file} /\ Holds(p, post[p].file)
  PROVE  PostsOK'
<1>1. /\ post'[p] = r
      /\ \A q \in Posters \ {p} : post'[q] = post[q]
  BY DEF TypeOK
<1>2. \A q \in Posters : \A f : Holds(q, f)' => q # p /\ Holds(q, f) /\ post'[q] = post[q]
  BY <1>1 DEF Holds
<1>3. Extracting'
  <2>1. metas' \subseteq linked'
    BY DEF PostsOK, Extracting
  <2>2. ASSUME NEW q \in Posters
        PROVE  /\ Holds(q, post[q].file)' => post'[q].file \in linked'
               /\ post'[q].meta => post'[q].pc = "store"
    BY <1>1, <1>2 DEF PostsOK, Extracting
  <2> QED
    BY <2>1, <2>2 DEF PostsOK, Extracting
<1>4. MetaOnce'
  <2> SUFFICES ASSUME NEW q \in Posters, Holds(q, post[q].file)'
               PROVE  /\ post'[q].file \notin metas'
                      /\ \A s \in Posters : Holds(s, post[q].file)' => s = q
    BY DEF MetaOnce
  <2>1. q # p /\ Holds(q, post[q].file) /\ post'[q] = post[q]
    BY <1>2
  <2>2. post[q].file \notin metas /\ \A s \in Posters : Holds(s, post[q].file) => s = q
    BY <2>1 DEF PostsOK, MetaOnce
  <2>3. Holds(p, post[p].file) => post[q].file # post[p].file
    BY <2>1, <2>2
  <2> QED
    BY <1>2, <2>1, <2>2, <2>3
<1>5. \A q \in Posters : post'[q].pc # "idle" => post'[q].file \in Files
  BY <1>1 DEF PostsOK
<1> QED
  BY <1>3, <1>4, <1>5 DEF PostsOK

\* A posting that links the preview of a content is the first posting to do so.
LEMMA PostsLink ==
  ASSUME TypeOK, PostsOK,
         NEW p \in Posters, post[p].pc = "link", cache[post[p].file] = "none",
         PostLink(p)
  PROVE  /\ PostsOK'
         /\ linked' = linked \cup {post[p].file}
         /\ Holds(p, post[p].file)' /\ post'[p].file = post[p].file
         /\ \A q \in Posters \ {p} : post'[q] = post[q]
<1> DEFINE f == post[p].file
<1>1. /\ post' = [post EXCEPT ![p].pc = "end"]
      /\ Linked(f, "rich")
      /\ linked' = linked \cup {f} /\ UNCHANGED metas
  BY DEF PostLink, PostAt
<1>2. /\ f \in Files /\ f \notin linked /\ f \notin metas /\ ~post[p].meta
      /\ \A q \in Posters : ~Holds(q, f)
  BY DEF PostsOK, Extracting, Holds
<1>3. /\ post'[p].file = f /\ post'[p].pc = "end" /\ ~post'[p].meta
      /\ \A q \in Posters \ {p} : post'[q] = post[q]
  BY <1>1, <1>2 DEF TypeOK
<1>4. Holds(p, post[p].file)'
  BY <1>3 DEF Holds
<1>5. \A q \in Posters \ {p} : \A g : Holds(q, g)' => Holds(q, g) /\ g # f
  BY <1>2, <1>3 DEF Holds
<1>6. \A g \in linked' : cache'[g] # "none"
  BY <1>1, <1>2 DEF Linked, PostsOK, Extracting, TypeOK
<1>7. Extracting'
  <2>1. \A q \in Posters : /\ Holds(q, post[q].file)' => post'[q].file \in linked'
                           /\ post'[q].meta => post'[q].pc = "store"
    BY <1>1, <1>3, <1>5 DEF PostsOK, Extracting
  <2> QED
    BY <1>1, <1>6, <2>1 DEF PostsOK, Extracting
<1>8. MetaOnce'
  <2> SUFFICES ASSUME NEW q \in Posters, Holds(q, post[q].file)'
               PROVE  /\ post'[q].file \notin metas'
                      /\ \A s \in Posters : Holds(s, post[q].file)' => s = q
    BY DEF MetaOnce
  <2>1. CASE q = p
    BY <1>1, <1>2, <1>3, <1>5, <2>1
  <2>2. CASE q # p
    <3>1. Holds(q, post[q].file) /\ post[q].file # f /\ post'[q] = post[q]
      BY <1>3, <1>5, <2>2
    <3>2. ~Holds(p, post[q].file)'
      BY <1>3, <3>1 DEF Holds
    <3> QED
      BY <1>1, <1>5, <3>1, <3>2 DEF PostsOK, MetaOnce
  <2> QED
    BY <2>1, <2>2
<1>9. \A q \in Posters : post'[q].pc # "idle" => post'[q].file \in Files
  BY <1>2, <1>3 DEF PostsOK
<1> QED
  BY <1>1, <1>3, <1>4, <1>7, <1>8, <1>9 DEF PostsOK

\* The meta-file that is ended is the one that the posting had already.
LEMMA PostsEnd ==
  ASSUME TypeOK, PostsOK, NEW p \in Posters, PostEnd(p)
  PROVE  /\ PostsOK'
         /\ \A q \in Posters : \A f : Holds(q, f)' <=> Holds(q, f)
         /\ post'[p].meta /\ post'[p].file = post[p].file
         /\ \A q \in Posters \ {p} : post'[q] = post[q]
<1>1. /\ post[p].pc = "end"
      /\ post' = [post EXCEPT ![p].pc = "store", ![p].meta = TRUE]
      /\ UNCHANGED <<cache, metas, linked>>
  BY DEF PostEnd
<1>2. /\ post'[p].file = post[p].file /\ post'[p].pc = "store" /\ post'[p].meta = TRUE
      /\ \A q \in Posters \ {p} : post'[q] = post[q]
  BY <1>1 DEF TypeOK
<1>3. \A q \in Posters : \A f : Holds(q, f)' <=> Holds(q, f)
  BY <1>1, <1>2 DEF Holds
<1>4. Extracting'
  <2>1. ASSUME NEW q \in Posters, Holds(q, post[q].file)' PROVE post'[q].file \in linked'
    <3>1. post'[q].file = post[q].file
      BY <1>2
    <3>2. Holds(q, post[q].file)
      BY <1>3, <2>1, <3>1 DEF Holds
    <3> QED
      BY <1>1, <3>1, <3>2 DEF PostsOK, Extracting
  <2>2. \A q \in Posters : post'[q].meta => post'[q].pc = "store"
    BY <1>2 DEF PostsOK, Extracting
  <2> QED
    BY <1>1, <2>1, <2>2 DEF PostsOK, Extracting
<1>5. MetaOnce'
  <2> SUFFICES ASSUME NEW q \in Posters, Holds(q, post[q].file)'
               PROVE  /\ post'[q].file \notin metas'
                      /\ \A s \in Posters : Holds(s, post[q].file)' => s = q
    BY DEF MetaOnce
  <2>1. post'[q].file = post[q].file
    BY <1>2
  <2>2. Holds(q, post[q].file)
    BY <1>3, <2>1 DEF Holds
  <2>3. ASSUME NEW s \in Posters, Holds(s, post[q].file)' PROVE s = q
    <3>1. Holds(s, post[q].file)
      BY <1>3, <2>1, <2>3 DEF Holds
    <3> QED
      BY <2>2, <3>1 DEF PostsOK, MetaOnce
  <2>4. post'[q].file \notin metas'
    BY <1>1, <2>1, <2>2 DEF PostsOK, MetaOnce
  <2> QED
    BY <2>3, <2>4
<1>6. \A q \in Posters : post'[q].pc # "idle" => post'[q].file \in Files
  BY <1>1, <1>2 DEF PostsOK
<1> QED
  BY <1>2, <1>3, <1>4, <1>5, <1>6 DEF PostsOK

\* The other steps of a posting: it goes on without a meta-file, or ends.
PostsAside(p) ==
    \/ \E x \in Posts : Post(p, x[1], x[2])
    \/ PostConvert(p)
    \/ cache[post[p].file] # "none" /\ PostLink(p)
    \/ PostConvertFails(p)
    \/ PostStore(p)
    \/ PostFails(p)

\* None of them leaves a meta-file with the posting.
LEMMA PostsAsideSteps ==
  ASSUME TypeOK, PostsOK, NEW p \in Posters, PostsAside(p)
  PROVE  \E r \in Postings :
            /\ r.meta = FALSE /\ r.pc # "end" /\ (r.pc # "idle" => r.file \in Files)
            /\ post' = [post EXCEPT ![p] = r]
<1>1. ASSUME NEW x \in Posts, Post(p, x[1], x[2])
      PROVE  \E r \in Postings :
                /\ r.meta = FALSE /\ r.pc # "end" /\ (r.pc # "idle" => r.file \in Files)
                /\ post' = [post EXCEPT ![p] = r]
  <2> DEFINE r == [Gone EXCEPT !.pc = "convert", !.file = x[1], !.type = x[2]]
  <2>1. x[1] \in Files /\ x[2] \in Types
    BY PreviewsAssumption DEF Types
  <2>2. r \in Postings /\ r.meta = FALSE /\ r.file \in Files /\ r.pc = "convert"
    BY <2>1 DEF Gone, Postings
  <2>3. post' = [post EXCEPT ![p] = r]
    BY <1>1 DEF Post
  <2> HIDE DEF r
  <2> QED
    BY <2>2, <2>3
<1>2. ASSUME PostConvert(p) \/ (cache[post[p].file] # "none" /\ PostLink(p)) \/ PostConvertFails(p)
      PROVE  \E r \in Postings :
                /\ r.meta = FALSE /\ r.pc # "end" /\ (r.pc # "idle" => r.file \in Files)
                /\ post' = [post EXCEPT ![p] = r]
  <2>1. PICK pc \in {"link", "store"} : post' = [post EXCEPT ![p].pc = pc]
    BY <1>2 DEF PostConvert, PostLink, PostConvertFails, PostAt
  <2>2. post[p].pc \in {"convert", "link", "end"}
    BY <1>2 DEF PostConvert, PostLink, PostConvertFails, PostAt
  <2>3. post[p].meta = FALSE /\ post[p].file \in Files
    BY <2>2 DEF PostsOK, Extracting, TypeOK
  <2> DEFINE r == [post[p] EXCEPT !.pc = pc]
  <2>4. r \in Postings /\ r.meta = FALSE /\ r.file \in Files /\ r.pc = pc
    BY <2>3 DEF TypeOK, Postings
  <2>5. post' = [post EXCEPT ![p] = r]
    BY <2>1 DEF TypeOK
  <2> HIDE DEF r
  <2> QED
    BY <2>4, <2>5
<1>3. ASSUME PostStore(p) \/ PostFails(p)
      PROVE  \E r \in Postings :
                /\ r.meta = FALSE /\ r.pc # "end" /\ (r.pc # "idle" => r.file \in Files)
                /\ post' = [post EXCEPT ![p] = r]
  <2>1. Gone \in Postings /\ Gone.meta = FALSE /\ Gone.pc = "idle"
    BY DEF Gone, Postings, Types
  <2>2. post' = [post EXCEPT ![p] = Gone]
    BY <1>3 DEF PostStore, PostFails
  <2> QED
    BY <2>1, <2>2
<1> QED
  BY <1>1, <1>2, <1>3 DEF PostsAside

\* What those steps do to previews and meta-files.
LEMMA PostsAsideEffects ==
  ASSUME TypeOK, PostsOK, NEW p \in Posters, PostsAside(p)
  PROVE  /\ UNCHANGED <<cache, linked>>
         /\ \/ metas' = metas
            \/ metas' = metas \cup {post[p].file} /\ Holds(p, post[p].file)
<1>1. CASE PostStore(p)
  BY <1>1 DEF PostStore, Holds
<1>2. CASE ~PostStore(p)
  BY <1>2 DEF PostsAside, Post, PostConvert, PostLink, PostConvertFails, PostFails
<1> QED
  BY <1>1, <1>2

\* The steps that are none of a posting's.
Elsewhere ==
    \/ \E v \in Viewers :
          \/ \E f \in Page[v] : View(v, f)
          \/ Runs(v)
          \/ InfoFails(v) \/ ConvertFails(v) \/ GenericFails(v)
    \/ \E x \in Uploads : Upload(x[1], x[2])
    \/ UNCHANGED vars

LEMMA ElsewhereEffects ==
  ASSUME TypeOK, Elsewhere
  PROVE  /\ UNCHANGED <<post, metas, linked>>
         /\ \A f \in Files : cache'[f] = "none" => cache[f] = "none"
<1>1. UNCHANGED <<post, metas, linked>>
  BY DEF Elsewhere, View, Runs, Answer, Lock, Convert, Generic, Release, InfoFails, ConvertFails,
     GenericFails, Upload, postVars, vars
<1>2. \A f \in Files : cache'[f] = "none" => cache[f] = "none"
  BY DEF Elsewhere, View, Runs, Answer, Lock, Convert, Generic, Release, InfoFails, ConvertFails,
     GenericFails, Upload, Linked, vars, TypeOK
<1> QED
  BY <1>1, <1>2

\* The steps, as the following proofs tell them apart.
LEMMA Steps ==
  ASSUME [Next]_vars
  PROVE  \/ Elsewhere
         \/ Restart
         \/ \E p \in Posters : \/ PostsAside(p)
                               \/ PostEnd(p)
                               \/ /\ post[p].pc = "link" /\ cache[post[p].file] = "none"
                                  /\ PostLink(p)
<1>1. ASSUME NEW p \in Posters, PostLink(p)
      PROVE  \/ PostsAside(p)
             \/ post[p].pc = "link" /\ cache[post[p].file] = "none" /\ PostLink(p)
  BY <1>1 DEF PostLink, PostsAside
<1> QED
  BY <1>1 DEF Next, Elsewhere, PostsAside

\* Every step keeps what is said of postings.
LEMMA PostsKept == TypeOK /\ PostsOK /\ [Next]_vars => PostsOK'
<1> SUFFICES ASSUME TypeOK, PostsOK, [Next]_vars PROVE PostsOK'
  OBVIOUS
<1>1. CASE Elsewhere
  BY <1>1, ElsewhereEffects, PostsUndisturbed
<1>2. CASE Restart
  <2>1. \A p \in Posters : post'[p] = Gone
    BY <1>2 DEF Restart
  <2>2. UNCHANGED <<cache, metas, linked>>
    BY <1>2 DEF Restart
  <2>3. \A p \in Posters : \A f : ~Holds(p, f)'
    BY <2>1 DEF Holds, Gone
  <2> QED
    BY <2>1, <2>2, <2>3 DEF PostsOK, Extracting, MetaOnce, Gone
<1>3. ASSUME NEW p \in Posters, PostsAside(p) PROVE PostsOK'
  BY <1>3, PostsAsideSteps, PostsAsideEffects, PostsWithout
<1>4. ASSUME NEW p \in Posters, PostEnd(p) PROVE PostsOK'
  BY <1>4, PostsEnd
<1>5. ASSUME NEW p \in Posters, post[p].pc = "link", cache[post[p].file] = "none", PostLink(p)
      PROVE  PostsOK'
  BY <1>5, PostsLink
<1> QED
  BY <1>1, <1>2, <1>3, <1>4, <1>5, Steps

-----------------------------------------------------------------------------
\* An error or a restart is counted.
LEMMA FaultsCounted ==
  ASSUME TypeOK, [Next]_vars
  PROVE  /\ faults' = 0 => faults = 0 /\ faults' = faults
         /\ faults' = faults =>
               ~Restart /\ \A p \in Posters : ~PostConvertFails(p) /\ ~PostFails(p)
<1>1. faults \in Nat /\ faults + 1 # faults /\ faults + 1 # 0
  BY PreviewsAssumption DEF TypeOK
<1>2. faults' = faults \/ faults' = faults + 1
  BY DEF Next, View, Runs, Answer, Lock, Convert, Generic, Release, InfoFails, ConvertFails,
     GenericFails, Post, PostConvert, PostLink, PostEnd, PostStore, PostConvertFails, PostFails,
     Upload, Restart, Fault, vars
<1>3. /\ Restart => faults' = faults + 1
      /\ \A p \in Posters : PostConvertFails(p) \/ PostFails(p) => faults' = faults + 1
  BY DEF Restart, PostConvertFails, PostFails, Fault
<1> QED
  BY <1>1, <1>2, <1>3

\* Without a fault no meta-file is lost, and whoever links a preview has one.
LEMMA KeptStays ==
  ASSUME TypeOK, PostsOK, [Next]_vars, faults' = faults
  PROVE  \A f \in linked' : f \notin linked \/ Kept(f) => Kept(f)'
<1>1. CASE Elsewhere
  <2>1. UNCHANGED <<post, metas, linked>>
    BY <1>1, ElsewhereEffects
  <2> QED
    BY <2>1 DEF Kept, Holds
<1>2. ASSUME NEW p \in Posters, PostsAside(p)
      PROVE  \A f \in linked' : f \notin linked \/ Kept(f) => Kept(f)'
  <2>1. PICK r \in Postings : post' = [post EXCEPT ![p] = r]
    BY <1>2, PostsAsideSteps
  <2>2. \A q \in Posters \ {p} : post'[q] = post[q]
    BY <2>1 DEF TypeOK
  <2>3. linked' = linked /\ metas \subseteq metas'
    BY <1>2, PostsAsideEffects
  <2>4. ASSUME NEW f, Holds(p, f) PROVE f \in metas'
    <3>1. PostStore(p)
      BY <1>2, <2>4, FaultsCounted DEF PostsAside, Post, PostConvert, PostLink, PostAt, Holds,
         PostsOK, Extracting
    <3>2. post[p].meta /\ post[p].file = f
      BY <2>4, <3>1 DEF PostStore, Holds
    <3> QED
      BY <3>1, <3>2 DEF PostStore
  <2> SUFFICES ASSUME NEW f \in linked, Kept(f) PROVE Kept(f)'
    BY <2>3
  <2>5. CASE f \in metas
    BY <2>3, <2>5 DEF Kept
  <2>6. ASSUME NEW q \in Posters, Holds(q, f) PROVE Kept(f)'
    BY <2>2, <2>4, <2>6 DEF Kept, Holds
  <2> QED
    BY <2>5, <2>6 DEF Kept
<1>3. ASSUME NEW p \in Posters, PostEnd(p)
      PROVE  \A f \in linked' : f \notin linked \/ Kept(f) => Kept(f)'
  <2>1. UNCHANGED <<metas, linked>>
    BY <1>3 DEF PostEnd
  <2> QED
    BY <1>3, <2>1, PostsEnd DEF Kept
<1>4. ASSUME NEW p \in Posters, post[p].pc = "link", cache[post[p].file] = "none", PostLink(p)
      PROVE  \A f \in linked' : f \notin linked \/ Kept(f) => Kept(f)'
  <2>1. /\ linked' = linked \cup {post[p].file}
        /\ Holds(p, post[p].file)' /\ post'[p].file = post[p].file
        /\ \A q \in Posters \ {p} : post'[q] = post[q]
        /\ UNCHANGED metas
    BY <1>4, PostsLink DEF PostLink
  <2>2. \A f : ~Holds(p, f)
    BY <1>4 DEF Holds, PostsOK, Extracting
  <2>3. Kept(post[p].file)'
    BY <2>1 DEF Kept
  <2>4. ASSUME NEW f \in linked, Kept(f) PROVE Kept(f)'
    BY <2>1, <2>2, <2>4 DEF Kept, Holds
  <2> QED
    BY <2>1, <2>3, <2>4
<1> QED
  BY <1>1, <1>2, <1>3, <1>4, Steps, FaultsCounted

-----------------------------------------------------------------------------
\* What relates postings, previews and the index.
IndexOK == FirstLinked /\ Faultless /\ PostedIndexed

\* Nothing that is listed disappears, and no preview does.
LEMMA Grows ==
  ASSUME TypeOK, [Next]_vars
  PROVE  \A f \in Files : /\ stored'[f] = "none" => stored[f] = "none"
                          /\ cache'[f] = "none" => cache[f] = "none"
<1>1. CASE UNCHANGED <<stored, cache>>
  BY <1>1
<1>2. ASSUME NEW v \in Viewers, Convert(v) \/ Generic(v)
      PROVE  \A f \in Files : /\ stored'[f] = "none" => stored[f] = "none"
                              /\ cache'[f] = "none" => cache[f] = "none"
  BY <1>2 DEF Convert, Generic, Linked, postVars, TypeOK
<1>3. ASSUME NEW p \in Posters, PostLink(p) \/ PostStore(p)
      PROVE  \A f \in Files : /\ stored'[f] = "none" => stored[f] = "none"
                              /\ cache'[f] = "none" => cache[f] = "none"
  BY <1>3 DEF PostLink, PostStore, Linked, TypeOK
<1>4. ASSUME NEW x \in Uploads, Upload(x[1], x[2])
      PROVE  \A f \in Files : /\ stored'[f] = "none" => stored[f] = "none"
                              /\ cache'[f] = "none" => cache[f] = "none"
  BY <1>4 DEF Upload, TypeOK
<1> QED
  BY <1>1, <1>2, <1>3, <1>4 DEF Next, View, Runs, Answer, Lock, Release, InfoFails, ConvertFails,
     GenericFails, Post, PostConvert, PostEnd, PostConvertFails, PostFails, Restart, postVars, vars

\* Pages are at listed files; previews come before the listing only by postings.
LEMMA FirstLinkedKept ==
  ASSUME TypeOK, TypeOK', AtFile, PostsOK, FirstLinked, [Next]_vars
  PROVE  FirstLinked'
<1>1. ASSUME NEW v \in Viewers, view'[v].pc # "idle" PROVE stored'[view'[v].file] # "none"
  <2>1. \/ view[v].pc # "idle" /\ view'[v].file = view[v].file
        \/ view'[v].file \in Files /\ stored[view'[v].file] # "none"
    <3>1. CASE UNCHANGED view
      BY <1>1, <3>1
    <3>2. ASSUME NEW w \in Viewers, NEW f \in Page[w], View(w, f)
          PROVE  \/ view[v].pc # "idle" /\ view'[v].file = view[v].file
                 \/ view'[v].file \in Files /\ stored[view'[v].file] # "none"
      BY <1>1, <3>2, PreviewsAssumption DEF View, Out, TypeOK
    <3>3. ASSUME NEW w \in Viewers, Answer(w)
          PROVE  view[v].pc # "idle" /\ view'[v].file = view[v].file
      BY <1>1, <3>3 DEF Answer, Out, TypeOK
    <3>4. ASSUME NEW w \in Viewers, Lock(w)
          PROVE  view[v].pc # "idle" /\ view'[v].file = view[v].file
      BY <1>1, <3>4 DEF Lock, Wait, TypeOK
    <3>5. ASSUME NEW w \in Viewers,
                 \/ Convert(w) \/ Generic(w)
                 \/ InfoFails(w) \/ ConvertFails(w) \/ GenericFails(w)
          PROVE  view[v].pc # "idle" /\ view'[v].file = view[v].file
      BY <1>1, <3>5 DEF Convert, Generic, InfoFails, ConvertFails, GenericFails, ViewAt, TypeOK
    <3>6. ASSUME NEW w \in Viewers, Release(w)
          PROVE  view[v].pc # "idle" /\ view'[v].file = view[v].file
      BY <1>1, <3>6 DEF Release, Broadcast, TypeOK
    <3>7. CASE Restart
      BY <1>1, <3>7 DEF Restart, Out
    <3> QED
      BY <3>1, <3>2, <3>3, <3>4, <3>5, <3>6, <3>7 DEF Next, Runs, Post, PostConvert, PostLink,
         PostEnd, PostStore, PostConvertFails, PostFails, Upload, vars
  <2>2. view'[v].file \in Files /\ stored[view'[v].file] # "none"
    BY <2>1 DEF AtFile, FirstLinked
  <2> QED
    BY <2>2, Grows
<1>2. ASSUME NEW f \in Files, stored'[f] = "none" PROVE cache'[f] = "none" \/ f \in linked'
  <2>1. stored[f] = "none"
    BY <1>2, Grows
  <2>2. linked \subseteq linked'
    BY DEF Next, View, Runs, Answer, Lock, Convert, Generic, Release, InfoFails, ConvertFails,
       GenericFails, Post, PostConvert, PostLink, PostEnd, PostStore, PostConvertFails, PostFails,
       Upload, Restart, postVars, vars
  <2>3. ASSUME NEW v \in Viewers, Convert(v) \/ Generic(v) PROVE cache'[f] = cache[f]
    <3>1. view[v].pc # "idle"
      BY <2>3 DEF Convert, Generic, ViewAt
    <3>2. view[v].file # f
      BY <2>1, <3>1 DEF FirstLinked
    <3> QED
      BY <2>3, <3>2 DEF Convert, Generic, Linked, TypeOK
  <2>4. ASSUME NEW p \in Posters, PostLink(p) PROVE cache'[f] = cache[f] \/ f \in linked'
    BY <2>4 DEF PostLink, Linked, TypeOK
  <2>5. cache'[f] = cache[f] \/ f \in linked'
    BY <2>3, <2>4 DEF Next, View, Runs, Answer, Lock, Release, InfoFails, ConvertFails,
       GenericFails, Post, PostConvert, PostEnd, PostStore, PostConvertFails, PostFails,
       Upload, Restart, vars
  <2> QED
    BY <2>1, <2>2, <2>5 DEF FirstLinked
<1> QED
  BY <1>1, <1>2 DEF FirstLinked

\* In a life without faults the postings of a text account for its meta-file.
LEMMA FaultlessKept ==
  ASSUME TypeOK, PostsOK, PostsOK', Faultless, [Next]_vars
  PROVE  Faultless'
<1> SUFFICES ASSUME faults' = 0
             PROVE  /\ \A f \in linked' : Kept(f)'
                    /\ \A p \in Posters :
                          post'[p].pc = "store" /\ post'[p].type = "text" /\ ~post'[p].meta
                          => cache'[post'[p].file] # "none"
  BY DEF Faultless
<1>1. faults = 0 /\ faults' = faults
  BY FaultsCounted
<1>2. \A f \in linked' : Kept(f)'
  BY <1>1, KeptStays DEF Faultless
<1>3. ASSUME NEW p \in Posters, post'[p].pc = "store", post'[p].type = "text", ~post'[p].meta
      PROVE  cache'[post'[p].file] # "none"
  <2>1. post'[p].file \in Files
    BY <1>3 DEF PostsOK
  <2>2. CASE post'[p] = post[p]
    BY <1>1, <1>3, <2>1, <2>2, Grows DEF Faultless
  <2>3. CASE post'[p] # post[p]
    <3>1. PICK q \in Posters : PostsAside(q) \/ PostEnd(q) \/ PostLink(q)
      BY <1>1, <2>3, Steps, FaultsCounted, ElsewhereEffects
    <3>2. q = p
      <4>1. CASE PostsAside(q)
        BY <2>3, <4>1, PostsAsideSteps DEF TypeOK
      <4>2. CASE PostEnd(q)
        BY <2>3, <4>2, PostsEnd
      <4>3. CASE PostLink(q)
        BY <2>3, <4>3 DEF PostLink, PostAt, TypeOK
      <4> QED
        BY <3>1, <4>1, <4>2, <4>3
    <3>3. ~PostEnd(p)
      BY <1>3, PostsEnd
    <3>4. ASSUME NEW x \in Posts, Post(p, x[1], x[2]) PROVE FALSE
      BY <1>3, <3>4 DEF Post, Gone, TypeOK
    <3>5. ~PostConvert(p)
      BY <1>3 DEF PostConvert, PostAt, TypeOK
    <3>6. ~PostStore(p)
      BY <1>3 DEF PostStore, Gone, TypeOK
    <3>7. PostLink(p) /\ cache[post[p].file] # "none"
      BY <1>1, <1>3, <3>1, <3>2, <3>3, <3>4, <3>5, <3>6, FaultsCounted
         DEF PostsAside, PostLink, PostAt, TypeOK
    <3>8. post'[p].file = post[p].file
      BY <3>7 DEF PostLink, PostAt, TypeOK
    <3> QED
      BY <2>1, <3>7, <3>8, Grows
  <2> QED
    BY <2>2, <2>3
<1> QED
  BY <1>2, <1>3

\* A text that comes by postings alone is listed with its meta-file.
LEMMA IndexedKept ==
  ASSUME TypeOK, PostsOK, PostsOK', FirstLinked, Faultless, Faultless', PostedIndexed, [Next]_vars
  PROVE  PostedIndexed'
<1> SUFFICES ASSUME faults' = 0, NEW f \in Files, Listed[f] = "none",
                    f \notin {x[1] : x \in Uploads}, stored'[f] = "text"
             PROVE  Kept(f)'
  BY DEF PostedIndexed
<1>1. faults = 0 /\ faults' = faults
  BY FaultsCounted
<1>2. CASE stored[f] = "text"
  <2>1. Kept(f)
    BY <1>1, <1>2 DEF PostedIndexed
  <2>2. f \in linked
    BY <2>1 DEF Kept, PostsOK, Extracting, Holds
  <2>3. f \in linked'
    BY <2>2 DEF Next, View, Runs, Answer, Lock, Convert, Generic, Release, InfoFails, ConvertFails,
       GenericFails, Post, PostConvert, PostLink, PostEnd, PostStore, PostConvertFails, PostFails,
       Upload, Restart, postVars, vars
  <2> QED
    BY <1>1, <2>1, <2>3, KeptStays
<1>3. CASE stored[f] # "text"
  <2>1. ~ \E x \in Uploads : Upload(x[1], x[2])
    BY <1>3 DEF Upload, TypeOK
  <2>2. PICK p \in Posters : PostStore(p)
    BY <1>3, <2>1 DEF Next, View, Runs, Answer, Lock, Convert, Generic, Release, InfoFails,
       ConvertFails, GenericFails, Post, PostConvert, PostLink, PostEnd, PostConvertFails,
       PostFails, Restart, postVars, vars
  <2>3. post[p].file = f /\ post[p].type = "text" /\ stored[f] = "none" /\ post[p].pc = "store"
    BY <1>3, <2>2 DEF PostStore, TypeOK
  <2>4. f \in linked
    <3>1. CASE post[p].meta
      BY <2>3, <3>1 DEF PostsOK, Extracting, Holds
    <3>2. CASE ~post[p].meta
      BY <1>1, <2>3, <3>2 DEF Faultless, FirstLinked
    <3> QED
      BY <3>1, <3>2
  <2>5. f \in linked'
    BY <2>2, <2>4 DEF PostStore
  <2> QED
    BY <2>5 DEF Faultless
<1> QED
  BY <1>2, <1>3

-----------------------------------------------------------------------------
\* Every step keeps the inductive invariant.
LEMMA PInvKept == PInv /\ [Next]_vars => PInv'
<1> SUFFICES ASSUME PInv, [Next]_vars PROVE PInv'
  OBVIOUS
<1>1. TypeOK'
  BY TypeKept DEF PInv
<1>2. ViewsOK'
  BY <1>1, ViewsKept DEF PInv, ViewsOK, AtFile
<1>3. PostsOK /\ PostsOK'
  BY PostsKept DEF PInv, PostsOK, AtFile
<1>4. FirstLinked'
  BY <1>1, <1>3, FirstLinkedKept DEF PInv
<1>5. Faultless'
  BY <1>3, FaultlessKept DEF PInv
<1>6. PostedIndexed'
  BY <1>3, <1>5, IndexedKept DEF PInv
<1> QED
  BY <1>1, <1>2, <1>3, <1>4, <1>5, <1>6 DEF PInv, ViewsOK, PostsOK, AtFile

\* The inductive invariant holds in every behaviour.
THEOREM Inductive == Spec => []PInv
  BY InitPInv, PInvKept, PTL DEF Spec

\* The variables keep their types: no slot beyond PENDING_MAX is used.
THEOREM TypesCorrect == Spec => []TypeOK
  BY Inductive, PTL DEF PInv

\* No file is generated twice at a time and no slot leaks (gen_preview).
THEOREM SlotsCorrect == Spec => []SlotsExact
  BY Inductive, PTL DEF PInv

\* Whoever waits in gen_preview waits for a request that will release a slot.
THEOREM WaitersCorrect == Spec => []WaitersWoken
  BY Inductive, PTL DEF PInv

\* A page without preview has seen its generation fail (gen_preview).
THEOREM EmptyCorrect == Spec => []EmptyMeansFailed
  BY Inductive, PTL DEF PInv

\* Once a posting has linked the preview, only a fault loses the meta-file that
\* was extracted with it (convert, POST_post).
THEOREM MetaKeptCorrect == Spec => MetaKept
<1>1. PInv /\ [Next]_vars =>
          [faults' = faults =>
              \A f \in linked' : f \notin linked \/ Kept(f) => Kept(f)']_vars
  <2> SUFFICES ASSUME PInv, [Next]_vars, faults' = faults
               PROVE  \A f \in linked' : f \notin linked \/ Kept(f) => Kept(f)'
    OBVIOUS
  <2> QED
    BY KeptStays DEF PInv, PostsOK, AtFile
<1> QED
  BY <1>1, Inductive, PTL DEF Spec, MetaKept

\* However many requests post a content, the meta-file extracted from it is stored
\* once, and a text that comes by postings alone is listed with it, whoever wins the
\* race for the preview (convert, parse_file, POST_post).
THEOREM PostedCorrect == Spec => []PostedOnce
<1>1. PInv => PostedOnce
  BY DEF PInv, PostedOnce
<1> QED
  BY <1>1, Inductive, PTL

=============================================================================
