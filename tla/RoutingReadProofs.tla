--------------------------- MODULE RoutingReadProofs ---------------------------
(***************************************************************************)
(* Proofs about what SchedulerRouting reads: inventories, triggers and     *)
(* what capabilities() advertises, for any number of sources of any kinds  *)
(* and any number of commands.  Inventories and triggers as long as Django *)
(* is set up (ColdStart = FALSE; the run RoutingColdTrigger shows that     *)
(* without it a trigger may fire the wrong schedule).                      *)
(*                                                                         *)
(* A command's loop passes over a source only after an answer, and the     *)
(* answer of a source whose models are loaded is what it holds at that     *)
(* moment.                                                                 *)
(***************************************************************************)
EXTENDS SchedulerRoutingProofs

\* A database source is asked with its models loaded.
AskedIsLoaded(c) ==
    phase[c] = "awaiting" /\ cmd[c].op \in {"list", "trigger"} /\ Kind[at[c]] = "dcb" =>
        loaded[at[c]]

\* What has been there since a command started is still there, and is listed
\* when the loop has passed its source.
Gathered(c) ==
    /\ phase[c] = "idle" => at[c] = 1
    /\ \A e \in since[c] : e[2] \in holds[e[1]]
    /\ cmd[c].op = "list" /\ phase[c] \in {"looping", "awaiting"} =>
           \A e \in since[c] : e[1] < at[c] => e[2] \in listed[c]
    /\ result[c] = "inventory" => \A e \in since[c] : e[2] \in listed[c]

\* The sources passed over did not hold the id; the one that did is the one
\* whose schedule goes to the broker.
Owned(c) ==
    /\ phase[c] \in {"idle", "looping", "awaiting"} => owners[c] = {}
    /\ phase[c] \in {"found", "sending"} => owners[c] \subseteq {found[c]}
    /\ phase[c] # "done" => sent[c] = 0
    /\ sent[c] = 1 \/ 0 \in pending[c] => owners[c] \subseteq {found[c]}

ReadOK(c) == AskedIsLoaded(c) /\ Gathered(c) /\ Owned(c)

ReadInv == django = TRUE /\ \A c \in Commands : ReadOK(c)

\* Nothing has been asked at the start.
LEMMA ReadInit == ASSUME ColdStart = FALSE, Init PROVE ReadInv
BY DEF Init, ReadInv, ReadOK, AskedIsLoaded, Gathered, Owned

\* The steps of one command.
Of(c) == Step(c) \/ LandLate(c) \/ PublishLate(c)

\* A command's steps do not touch the sources, forget no models and leave the
\* other commands alone.
LEMMA Frame ==
    ASSUME RoutingInv, NEW c \in Commands, Of(c)
    PROVE  /\ UNCHANGED <<django, holds, cmd>>
           /\ \A i \in Sources : loaded[i] => loaded'[i]
           /\ \A d \in Commands \ {c} :
                 /\ phase'[d] = phase[d] /\ at'[d] = at[d] /\ result'[d] = result[d]
                 /\ pending'[d] = pending[d] /\ found'[d] = found[d] /\ sent'[d] = sent[d]
                 /\ listed'[d] = listed[d] /\ since'[d] = since[d] /\ owners'[d] = owners[d]
<1> USE DEF RoutingInv, TypeOK, Environment, ReadState
<1>1. CASE Start(c) BY <1>1 DEF Start
<1>2. CASE Offer(c) \/ OfferExternal(c) \/ OfferRead(c)
  BY <1>2 DEF Offer, OfferExternal, OfferRead, Await, Ask
<1>3. CASE Accepted(c) \/ NotImplemented(c) \/ Refused(c) \/ Failed(c) \/ TimedOut(c)
  BY <1>3 DEF Accepted, NotImplemented, Refused, Failed, TimedOut, GoOn, Return
<1>4. CASE Exhausted(c)
  <2>1. \E r : Return(c, r) BY <1>4 DEF Exhausted
  <2> QED BY <1>4, <2>1 DEF Exhausted, Return, Ask
<1>5. CASE ListRead(c) \/ ListFailed(c) BY <1>5 DEF ListRead, ListFailed, GoOn, Return
<1>6. CASE GetRead(c) \/ GetFailed(c) BY <1>6 DEF GetRead, GetFailed, GoOn, Return
<1>7. CASE Send(c) \/ Published(c) \/ NotPublished(c) \/ SendTimedOut(c)
  BY <1>7 DEF Send, Published, NotPublished, SendTimedOut, Return
<1>8. CASE LandLate(c) \/ PublishLate(c) BY <1>8 DEF LandLate, PublishLate
<1> QED BY <1>1, <1>2, <1>3, <1>4, <1>5, <1>6, <1>7, <1>8 DEF Of, Step

\* So the other commands' part of the invariant stays.
LEMMA OthersKeep ==
    ASSUME RoutingInv, NEW c \in Commands, Of(c), NEW d \in Commands \ {c}, ReadOK(d)
    PROVE  ReadOK(d)'
BY Frame DEF ReadOK, AskedIsLoaded, Gathered, Owned, RoutingInv, InRange

\* The first step, and calling a source.
LEMMA AskingKeeps ==
    ASSUME RoutingInv, ReadInv, NEW c \in Commands,
           Start(c) \/ Offer(c) \/ OfferExternal(c) \/ OfferRead(c)
    PROVE  ReadOK(c)'
<1> USE DEF RoutingInv, TypeOK, ReadInv, ReadOK
<1>1. CASE Start(c)
  <2>1. at[c] = 1 BY <1>1 DEF Start, Gathered
  <2>2. since'[c] = {e \in Sources \X Ids : e[2] \in holds[e[1]]} BY <1>1 DEF Start
  <2>3. \A e \in since'[c] : e[1] \in Nat /\ ~(e[1] < 1) BY <2>2, RoutingAssumption DEF Sources
  <2>4. Gathered(c)'
    BY <1>1, <2>1, <2>2, <2>3 DEF Start, Gathered, Quiet
  <2> QED BY <1>1, <2>4 DEF Start, AskedIsLoaded, Owned
<1>2. CASE Offer(c) \/ OfferExternal(c)
  <2>1. PICK i \in at[c]..N : Await(c, i) BY <1>2 DEF Offer, OfferExternal
  <2>2. cmd[c].op \notin {"list", "trigger"}
    BY <1>2 DEF Offer, OfferExternal, Mutations
  <2>3. phase[c] = "looping" /\ UNCHANGED <<Environment, pending, found, sent, listed, owners>>
    BY <1>2 DEF Offer, OfferExternal
  <2>4. phase'[c] = "awaiting" /\ result' = result BY <2>1 DEF Await
  <2> QED BY <2>2, <2>3, <2>4 DEF AskedIsLoaded, Gathered, Owned, Environment
<1>3. CASE OfferRead(c)
  <2>1. /\ phase[c] = "looping" /\ at[c] \in Sources /\ phase'[c] = "awaiting"
        /\ at' = at /\ result' = result
    BY <1>3, RoutingAssumption DEF OfferRead, Await, Sources
  <2>2. Kind[at[c]] = "dcb" => loaded'[at[c]]
    BY <1>3, <2>1 DEF OfferRead, Ask, Available
  <2>3. UNCHANGED <<Environment, pending, found, sent, listed, owners>> BY <1>3 DEF OfferRead
  <2> QED BY <2>1, <2>2, <2>3 DEF AskedIsLoaded, Gathered, Owned, Environment
<1> QED BY <1>1, <1>2, <1>3

\* The answers to edits.
LEMMA EditsKeep ==
    ASSUME RoutingInv, ReadInv, NEW c \in Commands,
           Accepted(c) \/ NotImplemented(c) \/ Refused(c) \/ Failed(c) \/ TimedOut(c)
    PROVE  ReadOK(c)'
<1> USE DEF RoutingInv, TypeOK, ReadInv, ReadOK
<1>1. /\ phase[c] = "awaiting" /\ cmd[c].op \notin {"list", "trigger"}
      /\ UNCHANGED <<Environment, found, sent, listed, owners>>
  BY DEF Accepted, NotImplemented, Refused, Failed, TimedOut, Awaiting, Mutations, ReadState
<1>2. at[c] # 0 /\ pending[c] = {}
  <2>1. at[c] \in Sources /\ pending[c] = {} BY <1>1 DEF InRange, Quiet
  <2> QED BY <2>1, RoutingAssumption DEF Sources
<1>3. 0 \notin pending'[c]
  BY <1>1, <1>2 DEF Accepted, NotImplemented, Refused, Failed, TimedOut
<1>4. /\ phase'[c] \in {"looping", "done"}
      /\ result'[c] # "inventory"
  BY <1>1 DEF Accepted, NotImplemented, Refused, Failed, TimedOut, GoOn, Return, Quiet
<1> QED BY <1>1, <1>3, <1>4 DEF AskedIsLoaded, Gathered, Owned, Environment

\* A loop that has asked every source.
LEMMA ExhaustedKeeps ==
    ASSUME RoutingInv, ReadInv, NEW c \in Commands, Exhausted(c)
    PROVE  ReadOK(c)'
<1> USE DEF RoutingInv, TypeOK, ReadInv, ReadOK
<1>1. /\ phase[c] = "looping" /\ pending'[c] = {}
      /\ UNCHANGED <<Environment, found, sent, listed, owners>>
  BY DEF Exhausted, ReadState, Quiet
<1>2. phase'[c] = "done" BY DEF Exhausted, Return
<1>3. result'[c] = "inventory" => cmd[c].op = "list" BY DEF Exhausted, Return
<1>4. ASSUME cmd[c].op = "list" PROVE \A e \in since[c] : e[2] \in listed[c]
  <2>1. \A j \in at[c]..N : FALSE BY <1>4 DEF Exhausted, Mutations
  <2>2. N < at[c] BY <2>1, RoutingAssumption
  <2>3. \A e \in since[c] : e[1] < at[c] BY <2>2, RoutingAssumption DEF Sources
  <2> QED BY <1>1, <1>4, <2>3 DEF Gathered
<1> QED BY <1>1, <1>2, <1>3, <1>4 DEF AskedIsLoaded, Gathered, Owned, Environment

\* The answers to reads.
LEMMA ReadsKeep ==
    ASSUME RoutingInv, ReadInv, NEW c \in Commands,
           ListRead(c) \/ ListFailed(c) \/ GetRead(c) \/ GetFailed(c)
    PROVE  ReadOK(c)'
<1> USE DEF RoutingInv, TypeOK, ReadInv, ReadOK
<1>1. /\ phase[c] = "awaiting" /\ cmd[c].op \in {"list", "trigger"} /\ at[c] \in Sources
      /\ pending'[c] = {} /\ sent'[c] = 0 /\ owners[c] = {} /\ result[c] = "none"
      /\ UNCHANGED Environment
  BY DEF ListRead, ListFailed, GetRead, GetFailed, Awaiting, InRange, Quiet, Owned, ReadState
<1>2. Reported(at[c]) = holds[at[c]] BY <1>1 DEF Reported, AskedIsLoaded
<1>3. CASE ListRead(c)
  <2>1. /\ phase'[c] = "looping" /\ at'[c] = at[c] + 1 /\ result' = result
        /\ listed'[c] = listed[c] \cup holds[at[c]] /\ owners' = owners
        /\ cmd[c].op = "list"
    BY <1>2, <1>3 DEF ListRead, GoOn, Awaiting
  <2>2. ASSUME NEW e \in since[c], e[1] < at[c] + 1 PROVE e[2] \in listed'[c]
    <3>1. e[1] < at[c] \/ e[1] = at[c] BY <2>2, RoutingAssumption DEF Sources
    <3> QED BY <1>1, <2>1, <3>1 DEF Gathered
  <2> QED BY <1>1, <2>1, <2>2 DEF AskedIsLoaded, Gathered, Owned, Environment
<1>4. CASE ListFailed(c)
  BY <1>1, <1>4 DEF ListFailed, Return, AskedIsLoaded, Gathered, Owned, Environment, ReadState
<1>5. CASE GetRead(c)
  <2>1. cmd[c].op = "trigger" BY <1>5 DEF GetRead, Awaiting
  <2>2. CASE cmd[c].id \in holds[at[c]]
    <3>1. owners'[c] = {at[c]} BY <1>1, <1>5, <2>2 DEF GetRead, Asked
    <3>2. found'[c] = at[c] /\ phase'[c] = "found" /\ result' = result
      BY <1>2, <1>5, <2>2 DEF GetRead
    <3> QED BY <1>1, <2>1, <3>1, <3>2 DEF AskedIsLoaded, Gathered, Owned, Environment
  <2>3. CASE cmd[c].id \notin holds[at[c]]
    <3>1. owners'[c] = {} BY <1>1, <1>5, <2>3 DEF GetRead, Asked
    <3>2. phase'[c] = "looping" /\ result' = result
      BY <1>2, <1>5, <2>3 DEF GetRead, GoOn
    <3> QED BY <1>1, <2>1, <3>1, <3>2 DEF AskedIsLoaded, Gathered, Owned, Environment
  <2> QED BY <2>2, <2>3
<1>6. CASE GetFailed(c)
  BY <1>1, <1>6 DEF GetFailed, Return, AskedIsLoaded, Gathered, Owned, Environment
<1> QED BY <1>3, <1>4, <1>5, <1>6

\* From the schedule to the broker, and effects after the answer.
LEMMA PublishKeeps ==
    ASSUME RoutingInv, ReadInv, NEW c \in Commands,
           \/ Send(c) \/ Published(c) \/ NotPublished(c) \/ SendTimedOut(c)
           \/ LandLate(c) \/ PublishLate(c)
    PROVE  ReadOK(c)'
<1> USE DEF RoutingInv, TypeOK, ReadInv, ReadOK
<1>1. CASE Send(c) \/ Published(c) \/ NotPublished(c) \/ SendTimedOut(c)
  <2>1. /\ phase[c] \in {"found", "sending"} /\ cmd[c].op = "trigger"
        /\ owners[c] \subseteq {found[c]} /\ sent[c] = 0
        /\ UNCHANGED <<Environment, found, owners, listed>>
    BY <1>1 DEF Send, Published, NotPublished, SendTimedOut, ReadState, InRange, Owned
  <2>2. phase'[c] \in {"sending", "done"}
    BY <1>1 DEF Send, Published, NotPublished, SendTimedOut, Return
  <2>3. phase'[c] = "sending" => sent'[c] = 0
    BY <1>1, <2>1 DEF Send, Published, NotPublished, SendTimedOut, Return, ReadState
  <2>4. result'[c] # "inventory"
    BY <1>1 DEF Send, Published, NotPublished, SendTimedOut, Return, Quiet
  <2> QED BY <2>1, <2>2, <2>3, <2>4 DEF AskedIsLoaded, Gathered, Owned, Environment
<1>2. CASE LandLate(c)
  BY <1>2 DEF LandLate, ReadState, AskedIsLoaded, Gathered, Owned, Environment
<1>3. CASE PublishLate(c)
  <2>1. 0 \in pending[c] /\ phase[c] = "done" BY <1>3 DEF PublishLate, Quiet
  <2> QED BY <1>3, <2>1 DEF PublishLate, AskedIsLoaded, Gathered, Owned, Environment
<1> QED BY <1>1, <1>2, <1>3

\* What happens around the commands.
LEMMA WorldKeepsReads ==
    ASSUME RoutingInv, ReadInv, ColdStart = FALSE,
           \/ Advertise \/ DjangoChanges
           \/ \E i \in Sources, x \in Ids : Added(i, x) \/ Removed(i, x)
    PROVE  ReadInv'
<1> USE DEF RoutingInv, TypeOK
<1>1. UNCHANGED <<adapter, cmd, django>>
  BY DEF Advertise, DjangoChanges, Added, Removed
<1>2. \A i \in Sources : loaded[i] => loaded'[i]
  BY DEF Advertise, DjangoChanges, Added, Removed, Ask
<1>3. ASSUME NEW c \in Commands
      PROVE  since'[c] \subseteq since[c] /\ \A e \in since'[c] : e[2] \in holds'[e[1]]
  <2>1. CASE Advertise \/ DjangoChanges
    BY <2>1 DEF Advertise, DjangoChanges, ReadInv, ReadOK, Gathered
  <2>2. CASE \E i \in Sources, x \in Ids : Added(i, x)
    <3>1. PICK i \in Sources, x \in Ids : Added(i, x) BY <2>2
    <3> QED BY <3>1 DEF Added, ReadInv, ReadOK, Gathered
  <2>3. CASE \E i \in Sources, x \in Ids : Removed(i, x)
    <3>1. PICK i \in Sources, x \in Ids : Removed(i, x) BY <2>3
    <3>2. since'[c] = since[c] \ {<<i, x>>} BY <3>1 DEF Removed
    <3>3. ASSUME NEW e \in since'[c] PROVE e[2] \in holds'[e[1]]
      <4>1. e \in Sources \X Ids /\ e # <<i, x>> /\ e[2] \in holds[e[1]]
        BY <3>2, <3>3 DEF ReadInv, ReadOK, Gathered
      <4>2. e[1] # i \/ e[2] # x BY <4>1
      <4> QED BY <3>1, <4>1, <4>2 DEF Removed
    <3> QED BY <3>2, <3>3
  <2> QED BY <2>1, <2>2, <2>3
<1>4. ASSUME NEW c \in Commands PROVE ReadOK(c)'
  BY <1>1, <1>2, <1>3 DEF ReadInv, ReadOK, AskedIsLoaded, Gathered, Owned, adapter, InRange
<1> QED BY <1>1, <1>4 DEF ReadInv

\* Every step keeps the invariant.
LEMMA ReadNext == ASSUME ColdStart = FALSE PROVE RoutingInv /\ ReadInv /\ [Next]_vars => ReadInv'
<1> SUFFICES ASSUME RoutingInv, ReadInv, [Next]_vars PROVE ReadInv'
  OBVIOUS
<1>1. ASSUME NEW c \in Commands, Of(c) PROVE ReadInv'
  <2>1. ReadOK(c)'
    BY <1>1, AskingKeeps, EditsKeep, ExhaustedKeeps, ReadsKeep, PublishKeeps DEF Of, Step
  <2>2. \A d \in Commands \ {c} : ReadOK(d)' BY <1>1, OthersKeep DEF ReadInv
  <2>3. django' = TRUE BY <1>1, Frame DEF ReadInv
  <2> QED BY <2>1, <2>2, <2>3 DEF ReadInv
<1>2. CASE UNCHANGED vars
  BY <1>2 DEF vars, adapter, ReadInv, ReadOK, AskedIsLoaded, Gathered, Owned
<1> QED BY <1>1, <1>2, WorldKeepsReads DEF Next, Of

-----------------------------------------------------------------------------
(* Theorems. *)

\* With Django set up, in every reachable state.
THEOREM ReadInvariant == ASSUME ColdStart = FALSE PROVE Spec => []ReadInv
<1>1. Init => ReadInv BY ReadInit
<1>2. RoutingInv /\ ReadInv /\ [Next]_vars => ReadInv' BY ReadNext
<1> QED BY RoutingInvariant, <1>1, <1>2, PTL DEF Spec

\* An inventory that is returned misses nothing that was there all along, for
\* any number of sources.
THEOREM InventoriesAreComplete == ASSUME ColdStart = FALSE PROVE Spec => []InventoryComplete
<1>1. ReadInv => InventoryComplete BY DEF ReadInv, ReadOK, Gathered, InventoryComplete
<1> QED BY ReadInvariant, <1>1, PTL

\* A trigger fires the schedule of the first source that has the id, or none.
THEOREM TriggersFireTheOwner == ASSUME ColdStart = FALSE PROVE Spec => []FiresTheOwner
<1>1. ASSUME RoutingInv, ReadInv PROVE FiresTheOwner
  <2>1. ASSUME NEW c \in Commands, sent[c] = 1, NEW i \in owners[c] PROVE i >= found[c]
    <3>1. i = found[c] BY <1>1, <2>1 DEF ReadInv, ReadOK, Owned
    <3>2. i \in Nat BY <1>1, <2>1, RoutingAssumption DEF RoutingInv, TypeOK, Sources
    <3> QED BY <3>1, <3>2
  <2> QED BY <2>1 DEF FiresTheOwner
<1> QED BY RoutingInvariant, ReadInvariant, <1>1, PTL

-----------------------------------------------------------------------------
(* What capabilities() has advertised, also while Django comes and goes: the *)
(* source that was available then is latched, and an external mutation looks *)
(* at every source.                                                          *)

HasLatched == \E i \in DcbSources : loaded[i]

LatchInv ==
    /\ "external" \in advertised => HasLatched
    /\ \A c \in Commands :
          cmd[c].op = "external" /\ phase[c] \in {"idle", "looping"} => at[c] = 1

\* Nothing has been advertised at the start.
LEMMA LatchInit == Init => LatchInv
BY DEF Init, LatchInv

\* A command's step: what was latched stays so, and an external mutation is
\* offered once.
LEMMA LatchStep ==
    ASSUME RoutingInv, LatchInv, NEW c \in Commands, Of(c) PROVE LatchInv'
<1> USE DEF RoutingInv, TypeOK
<1>1. UNCHANGED advertised
  BY DEF Of, Step, Start, Offer, OfferExternal, OfferRead, Accepted, NotImplemented, Refused, Failed,
         TimedOut, Exhausted, ListRead, ListFailed, GetRead, GetFailed, Send, Published,
         NotPublished, SendTimedOut, LandLate, PublishLate, Environment
<1>2. HasLatched => HasLatched' BY Frame DEF HasLatched, DcbSources
<1>3. ASSUME cmd[c].op = "external", phase'[c] \in {"idle", "looping"} PROVE at'[c] = 1
  <2>1. at'[c] = at[c] /\ phase[c] \in {"idle", "looping"}
    <3>1. CASE Start(c) BY <3>1 DEF Start
    <3>2. CASE Offer(c) \/ OfferExternal(c) \/ OfferRead(c)
      BY <1>3, <3>2 DEF Offer, OfferExternal, OfferRead, Await
    <3>3. CASE Accepted(c) \/ NotImplemented(c) \/ Refused(c) \/ Failed(c) \/ TimedOut(c)
      BY <1>3, <3>3 DEF Accepted, NotImplemented, Refused, Failed, TimedOut, GoOn, Return,
                        Awaiting, Mutations
    <3>4. CASE Exhausted(c)
      <4>1. \E r : Return(c, r) BY <3>4 DEF Exhausted
      <4> QED BY <1>3, <4>1 DEF Return
    <3>5. CASE ListRead(c) \/ ListFailed(c) \/ GetRead(c) \/ GetFailed(c)
      BY <1>3, <3>5 DEF ListRead, ListFailed, GetRead, GetFailed, Awaiting
    <3>6. CASE Send(c) \/ Published(c) \/ NotPublished(c) \/ SendTimedOut(c)
      BY <1>3, <3>6 DEF Send, Published, NotPublished, SendTimedOut, Return
    <3>7. CASE LandLate(c) \/ PublishLate(c) BY <1>3, <3>7 DEF LandLate, PublishLate
    <3> QED BY <3>1, <3>2, <3>3, <3>4, <3>5, <3>6, <3>7 DEF Of, Step
  <2> QED BY <1>3, <2>1 DEF LatchInv
<1> QED BY <1>1, <1>2, <1>3, Frame DEF LatchInv

\* Every step keeps the latch.
LEMMA LatchNext == RoutingInv /\ LatchInv /\ [Next]_vars => LatchInv'
<1> SUFFICES ASSUME RoutingInv, LatchInv, [Next]_vars PROVE LatchInv'
  OBVIOUS
<1> USE DEF RoutingInv, TypeOK
<1>1. CASE UNCHANGED vars BY <1>1 DEF vars, adapter, LatchInv, HasLatched
<1>2. CASE Advertise
  <2>1. \A i \in Sources : loaded'[i] = (loaded[i] \/ (i \in FirstAvailable /\ Kind[i] = "dcb"
                                                       /\ Available(i)))
    BY <1>2 DEF Advertise, Ask
  <2>2. FirstAvailable # {} => HasLatched'
    BY <2>1 DEF FirstAvailable, HasLatched, DcbSources
  <2>3. HasLatched => HasLatched' BY <2>1 DEF HasLatched, DcbSources
  <2>4. "external" \in advertised' => "external" \in advertised \/ FirstAvailable # {}
    BY <1>2 DEF Advertise
  <2> QED BY <1>2, <2>2, <2>3, <2>4 DEF Advertise, adapter, LatchInv
<1>3. CASE DjangoChanges \/ \E i \in Sources, x \in Ids : Added(i, x) \/ Removed(i, x)
  BY <1>3 DEF DjangoChanges, Added, Removed, adapter, LatchInv, HasLatched
<1> QED BY <1>1, <1>2, <1>3, LatchStep DEF Next, Of

\* Once external mutations have been advertised, none is turned away for want
\* of a source, although the models may no longer be importable.
THEOREM AdvertisementsAreKept == Spec => AdvertisedIsKept
<1>1. ASSUME RoutingInv, LatchInv, [Next]_vars, NEW c \in Commands,
             "external" \in advertised, cmd[c].op = "external",
             result'[c] = "NotFoundError", result[c] # "NotFoundError"
      PROVE  FALSE
  <2>1. PICK d \in Commands : Of(d)
    BY <1>1 DEF Next, Of, vars, adapter, Advertise, DjangoChanges, Added, Removed
  <2>2. c = d BY <1>1, <2>1, Frame
  <2>3. Exhausted(c)
    <3>1. CASE Start(c) \/ Offer(c) \/ OfferExternal(c) \/ OfferRead(c)
      BY <1>1, <3>1 DEF Start, Offer, OfferExternal, OfferRead, Await
    <3>2. CASE Accepted(c) \/ NotImplemented(c) \/ Refused(c) \/ Failed(c) \/ TimedOut(c)
      BY <1>1, <3>2 DEF RoutingInv, TypeOK, Accepted, NotImplemented, Refused, Failed, TimedOut,
                        GoOn, Return
    <3>3. CASE ListRead(c) \/ ListFailed(c) \/ GetRead(c) \/ GetFailed(c)
      BY <1>1, <3>3 DEF ListRead, ListFailed, GetRead, GetFailed, Awaiting
    <3>4. CASE Send(c) \/ Published(c) \/ NotPublished(c) \/ SendTimedOut(c)
      BY <1>1, <3>4 DEF RoutingInv, TypeOK, Send, Published, NotPublished, SendTimedOut, Return
    <3>5. CASE LandLate(c) \/ PublishLate(c) BY <1>1, <3>5 DEF LandLate, PublishLate
    <3> QED BY <2>1, <2>2, <3>1, <3>2, <3>3, <3>4, <3>5 DEF Of, Step
  <2>4. at[c] = 1 BY <1>1, <2>3 DEF LatchInv, Exhausted
  <2>5. PICK i \in Sources : Kind[i] = "dcb" /\ loaded[i]
    BY <1>1 DEF LatchInv, HasLatched, DcbSources
  <2>6. Kind[i] # "dcb" \/ ~Available(i)
    BY <1>1, <2>3, <2>4 DEF Exhausted, Sources, Mutations
  <2> QED BY <2>5, <2>6 DEF Available
<1>2. RoutingInv /\ LatchInv /\ [Next]_vars =>
        [\A c \in Commands : "external" \in advertised /\ cmd[c].op = "external" =>
            result'[c] # "NotFoundError" \/ result[c] = "NotFoundError"]_vars
  BY <1>1
<1>3. Spec => []LatchInv BY RoutingInvariant, LatchInit, LatchNext, PTL DEF Spec
<1> QED BY RoutingInvariant, <1>2, <1>3, PTL DEF Spec, AdvertisedIsKept
================================================================================
