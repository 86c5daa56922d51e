------------------------------ MODULE MibView ------------------------------
(***************************************************************************)
(* Access control: src/core/mib_view.c.  A principal is a community name   *)
(* (SNMP v1/v2c) or a user name (v3); the code has one copy of every       *)
(* function for each, and so does this module where they are named.  Each  *)
(* principal has two lists of views, the one consulted for reading and the *)
(* one consulted for writing.  A view is a subtree of the mib, named by    *)
(* the oid of its root.                                                    *)
(*                                                                         *)
(* A call runs to its end before the next one starts (the program has one  *)
(* thread); it is modelled one loop iteration at a time, so that the       *)
(* invariants are those of the loops.                                      *)
(***************************************************************************)
EXTENDS MibLookup, Lists

CONSTANTS
  Community, User, \* the names
  ViewOid,         \* oids that views are registered with,
  Given,           \* and those of them registered for each name
  UnregAttr        \* attributes that the unregistration calls are given

Attr == {"READ", "WRITE"}
Principal == Community \cup User

ASSUME ViewAssumption ==
  /\ Community \cap User = {}
  /\ ViewOid \subseteq SmallOID /\ Given \in [Principal -> SUBSET ViewOid]
  /\ UnregAttr \subseteq Attr

VARIABLES
  mib_views,       \* oids of the view objects created; they are never freed
  mib_communities, \* the linked lists of names; new names go to the head
  mib_users,
  views,           \* views[<<p, a>>]: ro_views (READ) and rw_views (WRITE) of p
  vlink,           \* back links <<p, a, view>> from a view to its principals
  pc,              \* "idle", or the loop being executed
  who, oid,        \* arguments of the call
  list,            \* its attribute; for a registration, the list being bound
  curr             \* position in the list being walked

vars == <<mib_views, mib_communities, mib_users, views, vlink,
          pc, who, oid, list, curr>>

TypeOK ==
  /\ mib_views \subseteq ViewOid
  /\ mib_communities \in Seq(Community) /\ mib_users \in Seq(User)
  /\ views \in [Principal \X Attr -> Seq(ViewOid)]
  /\ vlink \subseteq Principal \X Attr \X ViewOid
  /\ pc \in {"idle", "filter", "add", "unreg"}
  /\ who \in Principal /\ oid \in ViewOid
  /\ list \in Attr
  /\ curr \in Nat \ {0}

Init ==
  /\ mib_views = {}
  /\ mib_communities = <<>> /\ mib_users = <<>>
  /\ views = [k \in Principal \X Attr |-> <<>>]
  /\ vlink = {}
  /\ pc = "idle" /\ curr = 1
  /\ who \in Principal /\ oid \in ViewOid   \* no call yet: arbitrary
  /\ list = "READ"
-----------------------------------------------------------------------------
\* community_create, user_create: an unknown name is put at the head.
community_create(c) ==
  mib_communities' = IF Contains(mib_communities, c) THEN mib_communities
                     ELSE <<c>> \o mib_communities

user_create(u) ==
  mib_users' = IF Contains(mib_users, u) THEN mib_users ELSE <<u>> \o mib_users

\* A registration binds the rw list first, when asked for write access, and
\* then always the ro list.  Every bind starts by filtering.
StartReg(p, o, a) ==
  /\ pc = "idle"
  /\ pc' = "filter" /\ curr' = 1
  /\ who' = p /\ oid' = o /\ list' = a
  /\ UNCHANGED <<mib_views, views, vlink>>

mib_community_reg(c, o, a) ==
  community_create(c) /\ StartReg(c, o, a) /\ UNCHANGED mib_users

mib_user_reg(u, o, a) ==
  user_create(u) /\ StartReg(u, o, a) /\ UNCHANGED mib_communities

\* The end of community_view_bind or user_view_bind.
BindReturns ==
  /\ IF list = "WRITE"
     THEN pc' = "filter" /\ list' = "READ"
     ELSE pc' = "idle" /\ list' = list
  /\ curr' = 1
-----------------------------------------------------------------------------
Bound == views[<<who, list>>]
Filtering == pc = "filter" /\ curr <= Len(Bound)

\* An existing view covers the new one: nothing to add.
FilterCovered ==
  /\ Filtering /\ oid_cover(Bound[curr], oid) > 0
  /\ BindReturns
  /\ UNCHANGED <<mib_views, mib_communities, mib_users, views, vlink, who, oid>>

\* mutant: list_del(&cv->vlink) is forgotten
Mut_FilterDelete ==
  /\ Filtering /\ oid_cover(Bound[curr], oid) < 0
  /\ views' = [views EXCEPT ![<<who, list>>] = RemoveAt(@, curr)]
  /\ UNCHANGED <<mib_views, mib_communities, mib_users, vlink, pc, who, oid, list, curr>>

\* The new view covers an existing one, which is unlinked and freed.
FilterDelete ==
  /\ Filtering /\ oid_cover(Bound[curr], oid) < 0
  /\ views' = [views EXCEPT ![<<who, list>>] = RemoveAt(@, curr)]
  /\ vlink' = vlink \ {<<who, list, Bound[curr]>>}
  /\ UNCHANGED <<mib_views, mib_communities, mib_users, pc, who, oid, list, curr>>

FilterSkip ==
  /\ Filtering /\ oid_cover(Bound[curr], oid) = 0
  /\ curr' = curr + 1
  /\ UNCHANGED <<mib_views, mib_communities, mib_users, views, vlink, pc, who, oid, list>>

\* Not filtered out: view_create finds or makes the view object (one per oid),
\* and the new link is hung on the view before the list is walked.
FilterEnd ==
  /\ pc = "filter" /\ curr > Len(Bound)
  /\ mib_views' = mib_views \cup {oid}
  /\ vlink' = vlink \cup {<<who, list, oid>>}
  /\ pc' = "add" /\ curr' = 1
  /\ UNCHANGED <<mib_communities, mib_users, views, who, oid, list>>

view_filter == FilterCovered \/ FilterDelete \/ FilterSkip \/ FilterEnd
community_view_filter == who \in Community /\ view_filter
user_view_filter == who \in User /\ view_filter
-----------------------------------------------------------------------------
AddSkip ==
  /\ pc = "add" /\ curr <= Len(Bound) /\ oid_cmp(Bound[curr], oid) <= 0
  /\ curr' = curr + 1
  /\ UNCHANGED <<mib_views, mib_communities, mib_users, views, vlink, pc, who, oid, list>>

\* Before the first view that compares greater, or at the tail.
AddInsert ==
  /\ pc = "add"
  /\ curr <= Len(Bound) => oid_cmp(Bound[curr], oid) > 0
  /\ views' = [views EXCEPT ![<<who, list>>] = InsertAt(@, curr, oid)]
  /\ BindReturns
  /\ UNCHANGED <<mib_views, mib_communities, mib_users, vlink, who, oid>>

view_add == AddSkip \/ AddInsert
community_view_add == who \in Community /\ view_add
user_view_add == who \in User /\ view_add
-----------------------------------------------------------------------------
StartUnreg(p, a) ==
  /\ pc = "idle"
  /\ pc' = "unreg" /\ curr' = 1
  /\ who' = p /\ list' = a
  /\ UNCHANGED <<mib_views, mib_communities, mib_users, views, vlink, oid>>

mib_community_unreg(c, a) == StartUnreg(c, a)
mib_user_unreg(u, a) == StartUnreg(u, a)

\* community_view_remove, user_view_remove: every link of the lists in as.
view_remove(as) ==
  /\ views' = [k \in Principal \X Attr |->
                 IF k[1] = who /\ k[2] \in as THEN <<>> ELSE views[k]]
  /\ vlink' = {l \in vlink : ~(l[1] = who /\ l[2] \in as)}

CallNames == IF who \in Community THEN mib_communities ELSE mib_users

\* mutant: READ unregistration leaves the rw list behind
Mut_RemovedAttrs == {list}

RemovedAttrs == IF list = "READ" THEN Attr ELSE {"WRITE"}

\* The name matches: remove the views and, when both lists are empty, the name.
\* The cursor does not move: it now stands on the next name, or, when the name
\* was kept, still on the same one.
UnregMatch ==
  /\ pc = "unreg" /\ curr <= Len(CallNames) /\ CallNames[curr] = who
  /\ view_remove(RemovedAttrs)
  /\ LET empty == views'[<<who, "READ">>] = <<>> /\ views'[<<who, "WRITE">>] = <<>>
         names == IF empty THEN RemoveAt(CallNames, curr) ELSE CallNames
     IN  /\ mib_communities' = IF who \in Community THEN names ELSE mib_communities
         /\ mib_users' = IF who \in Community THEN mib_users ELSE names
  /\ UNCHANGED <<mib_views, pc, who, oid, list, curr>>

\* mutant: other names do not advance the cursor
Mut_UnregSkip ==
  /\ pc = "unreg" /\ curr <= Len(CallNames) /\ CallNames[curr] # who
  /\ UNCHANGED vars

UnregSkip ==
  /\ pc = "unreg" /\ curr <= Len(CallNames) /\ CallNames[curr] # who
  /\ curr' = curr + 1
  /\ UNCHANGED <<mib_views, mib_communities, mib_users, views, vlink, pc, who, oid, list>>

UnregEnd ==
  /\ pc = "unreg" /\ curr > Len(CallNames)
  /\ pc' = "idle" /\ curr' = 1
  /\ UNCHANGED <<mib_views, mib_communities, mib_users, views, vlink, who, oid, list>>

unreg_loop == UnregMatch \/ UnregSkip \/ UnregEnd
community_unreg_loop == who \in Community /\ unreg_loop
user_unreg_loop == who \in User /\ unreg_loop
-----------------------------------------------------------------------------
\* What is left of the call in progress is determined.
Step ==
  \/ community_view_filter \/ user_view_filter
  \/ community_view_add \/ user_view_add
  \/ community_unreg_loop \/ user_unreg_loop

Call ==
  \/ \E c \in Community, o \in ViewOid, a \in Attr : o \in Given[c] /\ mib_community_reg(c, o, a)
  \/ \E u \in User, o \in ViewOid, a \in Attr : o \in Given[u] /\ mib_user_reg(u, o, a)
  \/ \E c \in Community, a \in UnregAttr : mib_community_unreg(c, a)
  \/ \E u \in User, a \in UnregAttr : mib_user_unreg(u, a)

Next == Call \/ Step

\* A call, once started, runs; nothing obliges anybody to call.
Spec == Init /\ [][Next]_vars /\ WF_vars(Step)
-----------------------------------------------------------------------------
Key == Principal \X Attr

\* The view lists never hold two views of which one covers the other, not even
\* while community_view_filter or user_view_filter is at work: a request would
\* otherwise be searched twice in the same subtree.
ViewsAntichain ==
  \A k \in Key : \A i, j \in 1 .. Len(views[k]) :
    i # j => oid_cover(views[k][i], views[k][j]) = 0

\* The view lists are in strictly ascending oid order at every moment of
\* community_view_add and user_view_add; mib_get and mib_getnext stop or go on
\* by that order.
ViewsSorted ==
  \A k \in Key : \A i, j \in 1 .. Len(views[k]) :
    i < j => OidLess(views[k][i], views[k][j])

\* Between calls whatever a principal may write it may also read, although the
\* two lists are filtered and filled separately (mib_community_reg binds both).
WritableIsReadable ==
  pc = "idle" =>
    \A p \in Principal : \A i \in 1 .. Len(views[<<p, "WRITE">>]) :
      \E j \in 1 .. Len(views[<<p, "READ">>]) :
        Covers(views[<<p, "READ">>][j], views[<<p, "WRITE">>][i])

\* The back links of the view objects point at exactly the list entries that
\* exist (one more for the entry that the add loop is about to insert): a link
\* freed on one list only would leave a dangling pointer on the other.
BackLinks ==
  \A p \in Principal, a \in Attr, o \in ViewOid :
    <<p, a, o>> \in vlink <=> \/ Contains(views[<<p, a>>], o)
                              \/ pc = "add" /\ <<who, list, oid>> = <<p, a, o>>

\* What the loops of a registration have established: the views passed by the
\* filter and the new one do not cover each other, and those passed by the add
\* loop are less than the new one.
CursorInv ==
  /\ pc \in {"filter", "add"} => curr <= Len(Bound) + 1
  /\ pc = "filter" =>
       \A j \in 1 .. Len(Bound) : j < curr => oid_cover(Bound[j], oid) = 0
  /\ pc = "add" =>
       \A j \in 1 .. Len(Bound) :
         oid_cover(Bound[j], oid) = 0 /\ (j < curr => OidLess(Bound[j], oid))

\* In the middle of a registration, too, a view that may be written is within one
\* that may be read or within the one being registered.
ReadableInv ==
  \A p \in Principal : \A i \in 1 .. Len(views[<<p, "WRITE">>]) :
    \/ \E j \in 1 .. Len(views[<<p, "READ">>]) :
         Covers(views[<<p, "READ">>][j], views[<<p, "WRITE">>][i])
    \/ pc \in {"filter", "add"} /\ who = p /\ Covers(oid, views[<<p, "WRITE">>][i])

\* What mib_community_search and mib_user_search look for.
Named(p) == Contains(mib_communities, p) \/ Contains(mib_users, p)

\* A name is in its list at most once, and is there exactly if it has a view or is
\* being registered: a name without views would answer noAccess instead of being
\* unknown, and a freed one must not leave views behind.
NamesInv ==
  /\ Unique(mib_communities) /\ Unique(mib_users)
  /\ \A p \in Principal :
       \/ pc \in {"filter", "add"} /\ who = p /\ Named(p)
       \/ ~ (pc \in {"filter", "add"} /\ who = p) /\ (Named(p) <=> views[<<p, "READ">>] # <<>>)

\* The invariant of the calls, from which those above follow.
ViewInv ==
  /\ TypeOK /\ ViewsAntichain /\ ViewsSorted /\ CursorInv
  /\ ReadableInv /\ BackLinks /\ NamesInv

\* Every registration, and every unregistration for reading, returns: the loops of
\* mib_community_reg and mib_community_unreg end, although the lists shrink and grow
\* under their cursors.
RegReturns == pc # "idle" /\ ~ (pc = "unreg" /\ list = "WRITE") ~> pc = "idle"

\* Every registration and unregistration returns, the one for writing included.
CallReturns == pc # "idle" ~> pc = "idle"
-----------------------------------------------------------------------------
(***************************************************************************)
(* What the lists stand for: the oids a principal may read and write.  A   *)
(* registration takes effect, seen from outside, when it is called, so the *)
(* view being registered counts while its list is worked on.               *)
(***************************************************************************)
Under == [v \in ViewOid |-> {o \in ViewOid : view_cover(<<v>>, o)}]
Accessible(p, a) == UNION {Under[views[<<p, a>>][j]] : j \in 1 .. Len(views[<<p, a>>])}
Pending(p) == IF pc \in {"filter", "add"} /\ who = p THEN Under[oid] ELSE {}

MayRead == [p \in Principal |-> Accessible(p, "READ") \cup Pending(p)]
MayWrite == [p \in Principal |-> Accessible(p, "WRITE") \cup
                                   (IF list = "WRITE" THEN Pending(p) ELSE {})]

Access == INSTANCE AccessControl WITH
  Universe <- ViewOid, readable <- MayRead, writable <- MayWrite

\* The lists, with their filtering and sorting, implement plain sets of oids to
\* which a registration adds exactly the subtree named and from which only an
\* unregistration takes away.
ImplementsAccessControl == Access!Spec
=============================================================================
