---------------------------- MODULE SessionCache ----------------------------
(***************************************************************************)
(* Sessions and their cache: SLNSession.c and SLNSessionCache.c, as the    *)
(* request handlers of blog/main.c and Blog.c's POST_auth use them.        *)
(*                                                                         *)
(* A session is a row of the database and, while somebody uses or caches   *)
(* it, a reference-counted object in memory.  Each session ID has one slot *)
(* of the cache, which it shares with others.  Handlers run concurrently   *)
(* and switch where they enter or leave the database.                      *)
(***************************************************************************)
EXTENDS Naturals, Sequences, FiniteSets

CONSTANTS
    Handlers,    \* concurrent requests
    Users,       \* those whose mode has SLN_RDWR: others cannot log in
    Keys,        \* session keys, by their hash
    NoKey,       \* the key of a cookie that no session of this repository has
    Objs,        \* memory for sessions
    NoObj,       \* NULL
    MaxSessions, \* bound: how many sessions are created
    Size,        \* slots of the cache
    SEARCH_DIST, \* slots session_lookup looks at
    SlotOf       \* [1..MaxSessions -> 0..(Size - 1)], session_pos

ASSUME SessionAssumption ==
    /\ IsFiniteSet(Handlers)
    /\ NoKey \notin Keys
    /\ NoObj \notin Objs
    /\ MaxSessions \in Nat
    /\ Size \in Nat \ {0}
    /\ SEARCH_DIST \in Nat \ {0}
    /\ SlotOf \in [1..MaxSessions -> 0..(Size - 1)]

VARIABLES
    rows,       \* SLNSessionByID: by session ID, its user and key
    issued,     \* the cookies clients were given: <<session ID, key>>
    heap,       \* the session objects
    ids,        \* cache->ids
    sessions,   \* cache->sessions
    h           \* progress of each handler

vars == <<rows, issued, heap, ids, sessions, h>>

Slots == 0..(Size - 1)

NoCookie == <<0, NoKey>>

\* Memory that was released reads as nothing (assert_zeroed).
Free == [refs |-> 0, id |-> 0, row |-> NoCookie]

\* A handler: what it is at, its cookie, the row it read or wrote, its session.
Idle == [pc |-> "idle", cookie |-> NoCookie, row |-> NoCookie, obj |-> NoObj]

Init ==
    /\ rows = <<>>
    /\ issued = {}
    /\ heap = [o \in Objs |-> Free]
    /\ ids = [x \in Slots |-> 0]
    /\ sessions = [x \in Slots |-> NoObj]
    /\ h = [r \in Handlers |-> Idle]

-----------------------------------------------------------------------------
(***************************************************************************)
(* Objects and slots, as functions of the heap.                            *)
(***************************************************************************)
Retain(m, o) == [m EXCEPT ![o].refs = @ + 1]

\* The last reference frees the object; releasing NULL does nothing.
Released(object) == IF object.refs = 1 THEN Free ELSE [object EXCEPT !.refs = @ - 1]
Release(m, o) == IF o = NoObj THEN m ELSE [m EXCEPT ![o] = Released(@)]

\* SLNSessionCreateInternal: the caller holds the only reference.
Created(o, id, row) == [heap EXCEPT ![o] = [refs |-> 1, id |-> id, row |-> row]]

\* Mutant: the object that had the slot is not released.
Cached_NoRelease(m, o, x) == IF ids[x] = m[o].id THEN m ELSE Retain(m, o)

\* session_cache on the heap: nothing if the slot has this session already, or
\* else the slot's reference passes from its old session to the new one.
Cached(m, o, x) ==
    IF ids[x] = m[o].id THEN m ELSE Retain(Release(m, sessions[x]), o)

\* Mutant: the slot is found taken and keeps its old session.
SlotFor_KeepsSession(id, o) ==
    /\ ids' = [ids EXCEPT ![SlotOf[id]] = id]
    /\ sessions' = [sessions EXCEPT ![SlotOf[id]] = IF @ = NoObj THEN o ELSE @]

\* session_cache on the slots.
SlotFor(id, o) ==
    /\ ids' = [ids EXCEPT ![SlotOf[id]] = id]
    /\ sessions' = [sessions EXCEPT ![SlotOf[id]] = IF ids[SlotOf[id]] = id THEN @ ELSE o]

\* Mutant: any cookie fits a session that is cached.
KeyValid_Any(row, c) == TRUE

\* SLNSessionKeyValid
KeyValid(row, c) == row[2] = c[2]

\* session_lookup: the first slot, from the ID's own, that has it.
Found(id, x) ==
    \E i \in 0..(SEARCH_DIST - 1) :
        /\ x = (SlotOf[id] + i) % Size
        /\ ids[x] = id
        /\ \A j \in 0..(i - 1) : ids[(SlotOf[id] + j) % Size] # id

-----------------------------------------------------------------------------
(***************************************************************************)
(* A request with a cookie (SLNSessionCacheCopyActiveSession).             *)
(***************************************************************************)

\* The cookies a client may send: its own, or one of another repository.
Cookies == issued \cup ((1..MaxSessions) \X {NoKey})

\* There is no public session: SLNRepoCreate sets the public mode to 0.
Public(r) == h' = [h EXCEPT ![r] = [Idle EXCEPT !.pc = "public", !.cookie = h[r].cookie]]

Lookup(r, c) ==
    /\ h[r].pc = "idle"
    /\ \/ \E x \in Slots :
             /\ Found(c[1], x)
             /\ IF KeyValid(heap[sessions[x]].row, c)
                THEN /\ heap' = Retain(heap, sessions[x])
                     /\ h' = [h EXCEPT ![r] = [pc |-> "hold", cookie |-> c, row |-> NoCookie,
                                               obj |-> sessions[x]]]
                ELSE /\ h' = [h EXCEPT ![r] = [Idle EXCEPT !.pc = "public", !.cookie = c]]
                     /\ UNCHANGED heap
       \/ /\ \A x \in Slots : ~Found(c[1], x)
          /\ h' = [h EXCEPT ![r] = [Idle EXCEPT !.pc = "load", !.cookie = c]]
          /\ UNCHANGED heap
    /\ UNCHANGED <<rows, issued, ids, sessions>>

\* SLNSessionCacheLoadSessionUnsafe up to the end of its read transaction.
Load(r) ==
    /\ h[r].pc = "load"
    /\ IF h[r].cookie[1] \in DOMAIN rows
       THEN h' = [h EXCEPT ![r].pc = "insert", ![r].row = rows[h[r].cookie[1]]]
       ELSE Public(r)
    /\ UNCHANGED <<rows, issued, heap, ids, sessions>>

\* The rest of it, and SLNSessionCacheLoadSession.  Another handler may have
\* cached the same session, or another of the same slot, meanwhile.
Insert(r) ==
    /\ h[r].pc = "insert"
    /\ \E o \in Objs :
          /\ heap[o].refs = 0
          /\ LET id == h[r].cookie[1]
                 m == Cached(Created(o, id, h[r].row), o, SlotOf[id])
             IN /\ SlotFor(id, o)
                /\ IF KeyValid(h[r].row, h[r].cookie)
                   THEN /\ heap' = m
                        /\ h' = [h EXCEPT ![r].pc = "hold", ![r].obj = o]
                   ELSE heap' = Release(m, o) /\ Public(r)
    /\ UNCHANGED <<rows, issued>>

\* The request is answered.
Finish(r) ==
    /\ h[r].pc \in {"hold", "public"}
    /\ heap' = Release(heap, h[r].obj)
    /\ h' = [h EXCEPT ![r] = Idle]
    /\ UNCHANGED <<rows, issued, ids, sessions>>

-----------------------------------------------------------------------------
(***************************************************************************)
(* Logging in (POST_auth, SLNSessionCacheCreateSession).                   *)
(***************************************************************************)

\* The password is right.  The temporary session is the handler's own.
LogIn(r, u) ==
    /\ h[r].pc = "idle"
    /\ h' = [h EXCEPT ![r] = [Idle EXCEPT !.pc = "login", !.row = <<u, NoKey>>]]
    /\ UNCHANGED <<rows, issued, heap, ids, sessions>>

\* SLNSessionCreateSession: a new key, a row under the next ID.
CreateSession(r, k) ==
    /\ h[r].pc = "login"
    /\ Len(rows) < MaxSessions
    /\ rows' = Append(rows, <<h[r].row[1], k>>)
    /\ h' = [h EXCEPT ![r] = [pc |-> "created", cookie |-> <<Len(rows'), k>>,
                              row |-> rows'[Len(rows')], obj |-> NoObj]]
    /\ UNCHANGED <<issued, heap, ids, sessions>>

\* The session is cached, the cookie is handed out, the handler lets go of it.
\* A cookie with another key may have had the session cached before.
HandOut(r) ==
    /\ h[r].pc = "created"
    /\ \E o \in Objs :
          /\ heap[o].refs = 0
          /\ LET id == h[r].cookie[1]
             IN /\ heap' = Release(Cached(Created(o, id, h[r].row), o, SlotOf[id]), o)
                /\ SlotFor(id, o)
    /\ issued' = issued \cup {h[r].cookie}
    /\ h' = [h EXCEPT ![r] = Idle]
    /\ UNCHANGED rows

\* An error of the database, the random source or the allocator: the request
\* is answered with it.  A row that was committed stays.
Fails(r) ==
    /\ h[r].pc \in {"load", "insert", "login", "created"}
    /\ h' = [h EXCEPT ![r] = Idle]
    /\ UNCHANGED <<rows, issued, heap, ids, sessions>>

\* The process dies and starts again: rows, and clients' cookies, stay.
Crash ==
    /\ heap' = [o \in Objs |-> Free]
    /\ ids' = [x \in Slots |-> 0]
    /\ sessions' = [x \in Slots |-> NoObj]
    /\ h' = [r \in Handlers |-> Idle]
    /\ UNCHANGED <<rows, issued>>

Next ==
    \/ \E r \in Handlers :
          \/ \E c \in Cookies : Lookup(r, c)
          \/ Load(r) \/ Insert(r) \/ Finish(r)
          \/ \E u \in Users : LogIn(r, u)
          \/ \E k \in Keys : CreateSession(r, k)
          \/ HandOut(r) \/ Fails(r)
    \/ Crash

Spec == Init /\ [][Next]_vars

-----------------------------------------------------------------------------
(***************************************************************************)
(* Properties.                                                             *)
(***************************************************************************)
\* Each object counts exactly the slots and handlers that point to it: none is
\* freed under a request that uses it when its slot passes on, and none that
\* nobody points to any more is kept (the assertions of Retain and Release).
RefsExact ==
    \A o \in Objs :
        heap[o].refs = Cardinality({x \in Slots : sessions[x] = o})
                         + Cardinality({r \in Handlers : h[r].obj = o})

\* A slot holds the session its ID says, as the database has it, wherever
\* handlers that loaded one session, or two of one slot, overtook each other.
SlotsTrue ==
    \A x \in Slots : ids[x] # 0 =>
        /\ SlotOf[ids[x]] = x
        /\ ids[x] \in DOMAIN rows
        /\ sessions[x] \in Objs
        /\ heap[sessions[x]].id = ids[x]
        /\ heap[sessions[x]].row = rows[ids[x]]

\* A cookie is answered as the database would answer it, cached or not, before
\* and after a restart: a request acts for the user whose key it has, for as
\* long as it lasts, and a cookie that was handed out is never turned away.
AnswersExact ==
    \A r \in Handlers :
        /\ h[r].pc = "hold" =>
              /\ h[r].cookie \in issued
              /\ heap[h[r].obj].id = h[r].cookie[1]
              /\ heap[h[r].obj].row = rows[h[r].cookie[1]]
        /\ h[r].pc = "public" => h[r].cookie \notin issued

=============================================================================
