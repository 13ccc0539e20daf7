------------------------------ MODULE Previews ------------------------------
(***************************************************************************)
(* Previews of the blog: send_preview, gen_preview and the posting of a    *)
(* file in blog/Blog.c, with BlogConvert and BlogGeneric.                  *)
(*                                                                         *)
(* A page shows a preview of each file it lists, from a cache on disk.  A  *)
(* missing preview is generated by the request that finds it missing,      *)
(* unless another one is at it already; at most PENDING_MAX are generated  *)
(* at once.  Posting a file converts it too, ahead of any view, and the    *)
(* meta-file that this extracts is stored with it in one batch.            *)
(*                                                                         *)
(* The sections under pending_mutex hold no other lock and do not switch,  *)
(* so each is one step; handlers switch at every other call.               *)
(***************************************************************************)
EXTENDS Naturals

CONSTANTS
    Viewers,     \* requests for pages
    Posters,     \* requests that post a file
    Files,       \* contents, by their internal hash
    Page,        \* the files each page request may list
    Posts,       \* the files that are posted: contents and types
    Uploads,     \* the files that come by another way
    Listed,      \* the type each content is listed under at first, or "none"
    NoFile,      \* NULL
    PENDING_MAX, \* previews generated at once
    MaxFaults    \* bound: errors and restarts

ASSUME PreviewsAssumption ==
    /\ NoFile \notin Files
    /\ Page \in [Viewers -> SUBSET Files]
    /\ Posts \cup Uploads \subseteq Files \X {"text", "other"}
    /\ Listed \in [Files -> {"none", "text", "other"}]
    /\ PENDING_MAX \in Nat \ {0}
    /\ MaxFaults \in Nat

VARIABLES
    cache,      \* the preview under each file's path: "none", "rich", "generic"
    stored,     \* type of the file a content is listed under: "none", "text", "other"
    metas,      \* contents whose extracted meta-file is stored
    pending,    \* blog->pending, by slot
    view,       \* progress of each page request
    post,       \* progress of each posting
    faults,     \* number of errors and restarts so far
    failed,     \* history: viewers during whose wait a generation failed
    linked      \* history: contents whose preview a posting linked

vars == <<cache, stored, metas, pending, view, post, faults, failed, linked>>

Slots == 1..PENDING_MAX
Types == {"text", "other"}  \* with a converter, and without one

\* A page request: the file it shows at present, whether another request beat
\* it to the generation, and the slot of its own (0: none).
Out == [pc |-> "idle", file |-> NoFile, beaten |-> FALSE, slot |-> 0]

\* A posting: its file and type, and whether parse_file gave it a meta-file.
Gone == [pc |-> "idle", file |-> NoFile, type |-> "other", meta |-> FALSE]

Init ==
    /\ cache = [f \in Files |-> "none"]
    /\ stored = Listed
    /\ metas = {}
    /\ pending = [s \in Slots |-> NoFile]
    /\ view = [v \in Viewers |-> Out]
    /\ post = [p \in Posters |-> Gone]
    /\ faults = 0
    /\ failed = {}
    /\ linked = {}

ViewAt(v, from, to) == view[v].pc = from /\ view' = [view EXCEPT ![v].pc = to]
PostAt(p, from, to) == post[p].pc = from /\ post' = [post EXCEPT ![p].pc = to]

Fault == faults < MaxFaults /\ faults' = faults + 1

postVars == <<stored, metas, post, linked>>

-----------------------------------------------------------------------------
(***************************************************************************)
(* A page shows a file (send_preview).                                     *)
(***************************************************************************)
\* HTTPConnectionWriteChunkFile sends the preview if it is there, which changes
\* nothing; the request goes on here when it is not (UV_ENOENT).
View(v, f) ==
    /\ view[v].pc = "idle"
    /\ stored[f] # "none"
    /\ cache[f] = "none"
    /\ view' = [view EXCEPT ![v] = [Out EXCEPT !.pc = "lock", !.file = f]]
    /\ UNCHANGED <<cache, pending, faults, failed, postVars>>

\* The preview, or the template that says there is none, or an error of sending.
Answer(v) ==
    /\ view[v].pc = "again"
    /\ view' = [view EXCEPT ![v] = Out]
    /\ failed' = failed \ {v}
    /\ UNCHANGED <<cache, pending, faults, postVars>>

-----------------------------------------------------------------------------
(***************************************************************************)
(* Generation by one request at a time (gen_preview).                      *)
(***************************************************************************)
\* Mutant: only the first slot is compared.
gen_pending_First(f) == pending[1] = f

gen_pending(f) == \E s \in Slots : pending[s] = f

\* The first free slot.
gen_available == {s \in Slots : pending[s] = NoFile /\ \A x \in 1..(s - 1) : pending[x] # NoFile}

\* Mutant: the request does not wait for the one that beat it.
Wait_Returns(v, beaten) ==
    /\ view' = [view EXCEPT ![v].pc = IF beaten THEN "again" ELSE "wait"]
    /\ UNCHANGED pending

\* async_cond_wait
Wait(v, beaten) ==
    /\ view' = [view EXCEPT ![v].pc = "wait", ![v].beaten = beaten]
    /\ UNCHANGED pending

\* Once round the loop, at first or after a wake-up.  A request that was
\* beaten to it waits for the others to end and generates nothing itself.
Lock(v) ==
    /\ view[v].pc = "lock"
    /\ \/ /\ gen_pending(view[v].file)
          /\ Wait(v, TRUE)
       \/ /\ ~gen_pending(view[v].file)
          /\ view[v].beaten
          /\ view' = [view EXCEPT ![v].pc = "again"]
          /\ UNCHANGED pending
       \/ /\ ~gen_pending(view[v].file)
          /\ ~view[v].beaten
          /\ gen_available = {}
          /\ Wait(v, FALSE)
       \/ /\ ~gen_pending(view[v].file)
          /\ ~view[v].beaten
          /\ \E s \in gen_available :
                /\ pending' = [pending EXCEPT ![s] = view[v].file]
                /\ view' = [view EXCEPT ![v].pc = "convert", ![v].slot = s]
    /\ UNCHANGED <<cache, faults, failed, postVars>>

\* Mutant: the request returns without giving its slot back.
InfoFails_KeepsSlot(v) ==
    /\ Fault
    /\ ViewAt(v, "convert", "again")
    /\ UNCHANGED <<cache, pending, failed, postVars>>

\* SLNSessionGetFileInfo fails: the file is not readable for this session.
InfoFails(v) ==
    /\ Fault
    /\ ViewAt(v, "convert", "release")
    /\ UNCHANGED <<cache, pending, failed, postVars>>

\* async_fs_link_mkdirp: what is there already is kept (UV_EEXIST).
Linked(f, p) == cache' = [cache EXCEPT ![f] = IF @ = "none" THEN p ELSE @]

\* The converted preview, if the listed file has a type with a converter
\* (which SLNSessionGetFileInfo tells and nothing changes); after an error,
\* EEXIST among them, the generic one.
Convert(v) ==
    LET f == view[v].file IN
    /\ view[v].pc = "convert"
    /\ \/ /\ stored[f] = "text" /\ cache[f] = "none"
          /\ ViewAt(v, "convert", "release")
          /\ Linked(f, "rich")
       \/ /\ stored[f] = "other" \/ cache[f] # "none"
          /\ ViewAt(v, "convert", "generic")
          /\ UNCHANGED cache
    /\ UNCHANGED <<pending, faults, failed, postVars>>

\* A file too large, an error of the converter or of a file operation.
ConvertFails(v) ==
    /\ Fault
    /\ ViewAt(v, "convert", "generic")
    /\ UNCHANGED <<cache, pending, failed, postVars>>

Generic(v) ==
    /\ ViewAt(v, "generic", "release")
    /\ Linked(view[v].file, "generic")
    /\ UNCHANGED <<pending, faults, failed, postVars>>

GenericFails(v) ==
    /\ Fault
    /\ ViewAt(v, "generic", "release")
    /\ UNCHANGED <<cache, pending, failed, postVars>>

\* Mutant: only those that wait for this file are woken.
Broadcast_Own(w) == IF w.pc = "wait" /\ w.beaten THEN [w EXCEPT !.pc = "lock"] ELSE w

\* async_cond_broadcast
Broadcast(w) == IF w.pc = "wait" THEN [w EXCEPT !.pc = "lock"] ELSE w

\* The slot is given back, whatever came of the generation.
Release(v) ==
    /\ view[v].pc = "release"
    /\ pending' = [pending EXCEPT ![view[v].slot] = NoFile]
    /\ view' = [w \in Viewers |-> IF w = v THEN [view[v] EXCEPT !.pc = "again", !.slot = 0]
                                  ELSE Broadcast(view[w])]
    /\ failed' = IF cache[view[v].file] # "none" THEN failed
                 ELSE failed \cup {w \in Viewers : view[w].file = view[v].file}
    /\ UNCHANGED <<cache, faults, postVars>>

-----------------------------------------------------------------------------
(***************************************************************************)
(* Posting a file (parse_file, POST_post).                                 *)
(***************************************************************************)

\* The content is written and hashed; it is not listed yet.
Post(p, f, t) ==
    /\ post[p].pc = "idle"
    /\ post' = [post EXCEPT ![p] = [Gone EXCEPT !.pc = "convert", !.file = f, !.type = t]]
    /\ UNCHANGED <<cache, stored, metas, pending, view, faults, failed, linked>>

\* Mutant: a content that another request posts is left to that one.
PostConvert_Others(p) ==
    LET others == {q \in Posters \ {p} : post[q].pc # "idle" /\ post[q].file = post[p].file} IN
    /\ PostAt(p, "convert", IF post[p].type = "text" /\ others = {} THEN "link" ELSE "store")
    /\ UNCHANGED <<cache, stored, metas, pending, view, faults, failed, linked>>

\* The converter, if the type has one, writes the preview and the meta-file to
\* temporary files.
PostConvert(p) ==
    /\ PostAt(p, "convert", IF post[p].type = "text" THEN "link" ELSE "store")
    /\ UNCHANGED <<cache, stored, metas, pending, view, faults, failed, linked>>

\* Mutant: a preview that is there already does not end the conversion.
PostLink_Exists(p) ==
    /\ PostAt(p, "link", "end")
    /\ Linked(post[p].file, "rich")
    /\ linked' = linked \cup {post[p].file}
    /\ UNCHANGED <<stored, metas, pending, view, faults, failed>>

\* The preview is linked, or one is there already (UV_EEXIST): the meta-file
\* that was extracted is then thrown away.
PostLink(p) ==
    LET f == post[p].file IN
    /\ post[p].pc = "link"
    /\ \/ /\ cache[f] = "none"
          /\ PostAt(p, "link", "end")
          /\ Linked(f, "rich")
          /\ linked' = linked \cup {f}
       \/ /\ cache[f] # "none"
          /\ PostAt(p, "link", "store")
          /\ UNCHANGED <<cache, linked>>
    /\ UNCHANGED <<stored, metas, pending, view, faults, failed>>

\* SLNSubmissionEnd of the meta-file: now parse_file has it.
PostEnd(p) ==
    /\ post[p].pc = "end"
    /\ post' = [post EXCEPT ![p].pc = "store", ![p].meta = TRUE]
    /\ UNCHANGED <<cache, stored, metas, pending, view, faults, failed, linked>>

\* The result of BlogConvert is ignored: the file is stored without.
PostConvertFails(p) ==
    /\ Fault
    /\ \E pc \in {"convert", "link", "end"} : PostAt(p, pc, "store")
    /\ UNCHANGED <<cache, stored, metas, pending, view, failed, linked>>

\* Mutant: nothing is stored of a content that is listed already.
PostStore_Known(p) ==
    LET f == post[p].file IN
    /\ post[p].pc = "store"
    /\ stored' = [stored EXCEPT ![f] = IF @ = "none" THEN post[p].type ELSE @]
    /\ metas' = IF post[p].meta /\ stored[f] = "none" THEN metas \cup {f} ELSE metas
    /\ post' = [post EXCEPT ![p] = Gone]
    /\ UNCHANGED <<cache, pending, view, faults, failed, linked>>

\* SLNSubmissionStoreBatch of the file, the extracted meta-file and the form's.
\* A content that is listed already keeps the type its URI resolves to.
PostStore(p) ==
    LET f == post[p].file IN
    /\ post[p].pc = "store"
    /\ stored' = [stored EXCEPT ![f] = IF @ = "none" THEN post[p].type ELSE @]
    /\ metas' = IF post[p].meta THEN metas \cup {f} ELSE metas
    /\ post' = [post EXCEPT ![p] = Gone]
    /\ UNCHANGED <<cache, pending, view, faults, failed, linked>>

\* The form's meta-file or the batch fails: nothing is stored.
PostFails(p) ==
    /\ Fault
    /\ post[p].pc = "store"
    /\ post' = [post EXCEPT ![p] = Gone]
    /\ UNCHANGED <<cache, stored, metas, pending, view, failed, linked>>

-----------------------------------------------------------------------------
\* A file comes by another way: PUT, another repository.
Upload(f, t) ==
    /\ stored[f] = "none"
    /\ stored' = [stored EXCEPT ![f] = t]
    /\ UNCHANGED <<cache, metas, pending, view, post, faults, failed, linked>>

\* The process ends and starts again: previews and the index are on disk.
Restart ==
    /\ Fault
    /\ pending' = [s \in Slots |-> NoFile]
    /\ view' = [v \in Viewers |-> Out]
    /\ post' = [p \in Posters |-> Gone]
    /\ failed' = {}
    /\ UNCHANGED <<cache, stored, metas, linked>>

Runs(v) ==
    Answer(v) \/ Lock(v) \/ Convert(v) \/ Generic(v) \/ Release(v)

Next ==
    \/ \E v \in Viewers :
          \/ \E f \in Page[v] : View(v, f)
          \/ Runs(v)
          \/ InfoFails(v) \/ ConvertFails(v) \/ GenericFails(v)
    \/ \E p \in Posters :
          \/ \E x \in Posts : Post(p, x[1], x[2])
          \/ PostConvert(p) \/ PostLink(p) \/ PostEnd(p) \/ PostStore(p)
          \/ PostConvertFails(p) \/ PostFails(p)
    \/ \E x \in Uploads : Upload(x[1], x[2])
    \/ Restart

Spec == Init /\ [][Next]_vars

\* The scheduler runs each request that can run; nothing makes requests come.
FairSpec == Spec /\ \A v \in Viewers : WF_vars(Runs(v))

-----------------------------------------------------------------------------
(***************************************************************************)
(* Properties.                                                             *)
(***************************************************************************)

\* Requests that hold a slot.
Generating == {v \in Viewers : view[v].pc \in {"convert", "generic", "release"}}

\* Types of the variables.
TypeOK ==
    /\ cache \in [Files -> {"none", "rich", "generic"}]
    /\ stored \in [Files -> {"none"} \cup Types]
    /\ metas \subseteq Files /\ linked \subseteq Files
    /\ pending \in [Slots -> Files \cup {NoFile}]
    /\ view \in [Viewers -> [pc : {"idle", "lock", "wait", "convert", "generic",
                                   "release", "again"},
                             file : Files \cup {NoFile}, beaten : BOOLEAN, slot : {0} \cup Slots]]
    /\ post \in [Posters -> [pc : {"idle", "convert", "link", "end", "store"},
                             file : Files \cup {NoFile}, type : Types, meta : BOOLEAN]]
    /\ faults \in 0..MaxFaults
    /\ failed \subseteq Viewers

\* Slots and generating requests correspond one to one, and no file is
\* generated by two requests, however they were woken and whichever slot was
\* free: the assertion of gen_preview (path == pending[slot]) and the comment
\* that starting a generation for each request must be avoided.
SlotsExact ==
    /\ \A v \in Generating : view[v].slot \in Slots /\ pending[view[v].slot] = view[v].file
    /\ \A s \in Slots : pending[s] # NoFile => \E v \in Generating : view[v].slot = s
    /\ \A v, w \in Generating : view[v].file = view[w].file => v = w

\* A request that waits has somebody to wake it: the one that beat it is still
\* at the file, or, when none did, some request holds a slot.
WaitersWoken ==
    \A v \in Viewers : view[v].pc = "wait" =>
        IF view[v].beaten THEN gen_pending(view[v].file) ELSE Generating # {}

\* A page says there is no preview only if a generation of it failed while the
\* page waited ("another thread tried to gen and failed"): a request that was
\* beaten to it comes back when the other one has ended, not before.
EmptyMeansFailed ==
    \A v \in Viewers :
        view[v].pc = "again" /\ cache[view[v].file] = "none" => v \in failed

\* A posting has the meta-file of f, and nobody else can link a preview to it.
Holds(p, f) == post[p].file = f /\ (post[p].pc = "end" \/ post[p].meta)

Kept(f) == f \in metas \/ \E p \in Posters : Holds(p, f)

\* The meta-file extracted from a content is stored once, however many requests
\* post it: no two have one at a time, and none does when it is in the index.
MetaOnce ==
    \A p \in Posters : LET f == post[p].file IN
        Holds(p, f) => f \notin metas /\ \A q \in Posters : Holds(q, f) => q = p

\* Once a posting has linked the preview, so that nobody will extract the
\* meta-file again, only an error or a restart loses it: not another posting, a
\* page or an upload of the content, in whatever order they come.
MetaKept ==
    [][faults' = faults =>
          \A f \in linked' : f \notin linked \/ Kept(f) => Kept(f)']_vars

\* A text that comes by postings alone is never listed without its meta-file, but
\* for one that is about to be stored by the posting that linked first: losing
\* the race for the preview to another posting loses nothing, and no page links
\* it before.  (If it was listed by another way a page may be first, and then the
\* posting's meta-file is thrown away for good.)
PostedIndexed ==
    faults = 0 => \A f \in Files :
        Listed[f] = "none" /\ f \notin {x[1] : x \in Uploads} /\ stored[f] = "text" => Kept(f)

\* Between postings of one content its meta-file is neither stored twice nor lost.
PostedOnce == MetaOnce /\ PostedIndexed

\* Every page is answered: no request waits for a wake-up that was given
\* already or never comes.
Answered == \A v \in Viewers : view[v].pc # "idle" ~> view[v].pc = "idle"

=============================================================================
