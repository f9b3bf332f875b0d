------------------------ MODULE SchedulerRoutingProofs ------------------------
(***************************************************************************)
(* Proofs about SchedulerRouting, for any number of sources of any kinds   *)
(* and any number of commands.                                             *)
(*                                                                         *)
(* A command has no effect while its loop is still running: every answer   *)
(* that may have had one ends the loop (Quiet).  What has an effect        *)
(* afterwards is therefore the one source the loop stopped at (Confined).  *)
(***************************************************************************)
EXTENDS SchedulerRouting, FiniteSetTheorems, TLAPS

\* A command that has not returned has done nothing and can do nothing late.
Quiet ==
    \A c \in Commands : phase[c] # "done" =>
        touched[c] = {} /\ pending[c] = {} /\ result[c] = "none"

\* What a command did or may still do is at the source its loop stopped at.
Confined == \A c \in Commands : touched[c] \cup (pending[c] \ {0}) \subseteq {at[c]}

\* A command that awaits a source has not run past the last one, and only a
\* trigger goes on from a schedule to the broker.
InRange ==
    \A c \in Commands :
        /\ phase[c] = "awaiting" => at[c] \in Sources
        /\ phase[c] \in {"found", "sending"} => cmd[c].op = "trigger"

RoutingInv == TypeOK /\ Quiet /\ Confined /\ InRange /\ AnswersCoverEffects

\* Nothing has happened at the start.
LEMMA RoutingInit == Init => RoutingInv
<1> SUFFICES ASSUME Init PROVE RoutingInv
  OBVIOUS
<1>1. at \in [Commands -> 1..(N + 1)] BY RoutingAssumption DEF Init
<1>2. found \in [Commands -> 0..N] /\ sent \in [Commands -> 0..1]
  BY RoutingAssumption DEF Init
<1>3. /\ touched \in [Commands -> SUBSET Sources]
      /\ pending \in [Commands -> SUBSET (0..N)]
      /\ owners \in [Commands -> SUBSET Sources]
  BY DEF Init
<1>4. /\ listed \in [Commands -> SUBSET Ids]
      /\ since \in [Commands -> SUBSET (Sources \X Ids)]
  BY DEF Init
<1>5. django \in BOOLEAN /\ app \in BOOLEAN /\ loaded \in [Sources -> BOOLEAN]
  BY RoutingAssumption DEF Init
<1>6. TypeOK
  BY <1>1, <1>2, <1>3, <1>4, <1>5 DEF Init, TypeOK, Phases, Results
<1> QED
  BY <1>6 DEF Init, RoutingInv, Quiet, Confined, InRange, AnswersCoverEffects

\* Going on to the next source: nothing has been done yet.
LEMMA GoOnKeeps ==
    ASSUME RoutingInv, NEW c \in Commands, phase[c] = "awaiting", GoOn(c),
           loaded' \in [Sources -> BOOLEAN],
           listed' \in [Commands -> SUBSET Ids],
           owners' \in [Commands -> SUBSET Sources],
           UNCHANGED <<django, holds, app, advertised, cmd, since, touched, pending,
                       found, sent>>
    PROVE  RoutingInv'
<1>1. TypeOK'
  <2>1. at[c] + 1 \in 1..(N + 1)
    BY RoutingAssumption DEF RoutingInv, InRange, Sources
  <2>2. at' \in [Commands -> 1..(N + 1)] /\ phase' \in [Commands -> Phases]
    BY <2>1 DEF RoutingInv, TypeOK, GoOn, Phases
  <2> QED BY <2>2 DEF RoutingInv, TypeOK, GoOn
<1>2. touched[c] = {} /\ pending[c] = {} BY DEF RoutingInv, Quiet
<1>3. Quiet' BY <1>2 DEF RoutingInv, TypeOK, Quiet, GoOn
<1>4. Confined' BY <1>2 DEF RoutingInv, TypeOK, Confined, GoOn
<1>5. InRange' BY DEF RoutingInv, TypeOK, InRange, GoOn
<1>6. AnswersCoverEffects'
  BY <1>2 DEF RoutingInv, TypeOK, Quiet, AnswersCoverEffects, GoOn
<1> QED BY <1>1, <1>3, <1>4, <1>5, <1>6 DEF RoutingInv

\* Calling a source: nothing has been done yet, and nothing is now.
LEMMA AwaitKeeps ==
    ASSUME RoutingInv, NEW c \in Commands, phase[c] = "looping",
           NEW i \in Sources, Await(c, i),
           loaded' \in [Sources -> BOOLEAN],
           UNCHANGED <<Environment, touched, pending, found, sent, listed, owners>>
    PROVE  RoutingInv'
<1> USE DEF Environment
<1>1. TypeOK'
  BY RoutingAssumption DEF RoutingInv, TypeOK, Await, Phases, Sources
<1>2. touched[c] = {} /\ pending[c] = {} BY DEF RoutingInv, Quiet
<1>3. Quiet' BY <1>2 DEF RoutingInv, TypeOK, Quiet, Await
<1>4. Confined' BY <1>2 DEF RoutingInv, TypeOK, Confined, Await
<1>5. InRange' BY DEF RoutingInv, TypeOK, InRange, Await
<1>6. AnswersCoverEffects'
  BY <1>2 DEF RoutingInv, TypeOK, Quiet, AnswersCoverEffects, Await
<1> QED BY <1>1, <1>3, <1>4, <1>5, <1>6 DEF RoutingInv

\* Returning, with effects that the result admits.
LEMMA ReturnKeeps ==
    ASSUME RoutingInv, NEW c \in Commands, phase[c] \notin {"idle", "done"},
           Return(c, result'[c]), result'[c] \in Results \ {"none"},
           touched' = [touched EXCEPT ![c] = touched'[c]],
           pending' = [pending EXCEPT ![c] = pending'[c]],
           sent' = [sent EXCEPT ![c] = sent'[c]],
           touched'[c] = {} \/ (at[c] \in Sources /\ touched'[c] = {at[c]}),
           \/ pending'[c] \in {{}, {0}}
           \/ at[c] \in Sources /\ pending'[c] = {at[c]},
           sent'[c] \in 0..1,
           result'[c] \in {"failed", "NotFoundError"} => touched'[c] = {} /\ pending'[c] = {},
           result'[c] = "success" =>
               /\ pending'[c] = {}
               /\ \/ touched'[c] = {at[c]}
                  \/ cmd[c].op = "delete"
                  \/ cmd[c].op = "trigger" /\ sent'[c] = 1,
           loaded' \in [Sources -> BOOLEAN],
           owners' \in [Commands -> SUBSET Sources],
           UNCHANGED <<Environment, found, listed>>
    PROVE  RoutingInv'
<1> USE DEF Environment
<1>1. TypeOK'
  <2>1. phase' \in [Commands -> Phases] /\ result' \in [Commands -> Results]
    BY DEF RoutingInv, TypeOK, Return, Phases
  <2>2. touched'[c] \in SUBSET Sources /\ pending'[c] \in SUBSET (0..N)
    BY RoutingAssumption DEF Sources
  <2>3. touched' \in [Commands -> SUBSET Sources]
    BY <2>2 DEF RoutingInv, TypeOK
  <2>4. pending' \in [Commands -> SUBSET (0..N)] /\ sent' \in [Commands -> 0..1]
    BY <2>2 DEF RoutingInv, TypeOK
  <2> QED BY <2>1, <2>3, <2>4 DEF RoutingInv, TypeOK, Return
<1>2. Quiet' BY DEF RoutingInv, TypeOK, Quiet, Return
<1>3. Confined'
  <2>1. \A d \in Commands \ {c} : touched'[d] = touched[d] /\ pending'[d] = pending[d]
    BY DEF RoutingInv, TypeOK
  <2>2. at' = at BY DEF Return
  <2>3. touched'[c] \cup (pending'[c] \ {0}) \subseteq {at[c]} OBVIOUS
  <2> QED BY <2>1, <2>2, <2>3 DEF RoutingInv, Confined
<1>4. InRange' BY DEF RoutingInv, TypeOK, InRange, Return
<1>5. AnswersCoverEffects'
  BY DEF RoutingInv, TypeOK, AnswersCoverEffects, Return
<1> QED BY <1>1, <1>2, <1>3, <1>4, <1>5 DEF RoutingInv

\* Asking about availability keeps the record of what was loaded.
LEMMA AskType == ASSUME TypeOK, NEW asked, Ask(asked) PROVE loaded' \in [Sources -> BOOLEAN]
BY DEF TypeOK, Ask

\* Offering a command to a source.
LEMMA OfferKeeps ==
    ASSUME RoutingInv, NEW c \in Commands, Offer(c) \/ OfferExternal(c) \/ OfferRead(c)
    PROVE  RoutingInv'
<1>1. at[c] \in 1..(N + 1) /\ phase[c] = "looping"
  BY DEF RoutingInv, TypeOK, Offer, OfferExternal, OfferRead
<1>2. \E i \in Sources : Await(c, i)
  BY <1>1, RoutingAssumption DEF Offer, OfferExternal, OfferRead, Sources
<1>3. loaded' \in [Sources -> BOOLEAN]
  BY AskType DEF Offer, OfferExternal, OfferRead, RoutingInv
<1>4. UNCHANGED <<Environment, touched, pending, found, sent, listed, owners>>
  BY DEF Offer, OfferExternal, OfferRead
<1> QED BY <1>1, <1>2, <1>3, <1>4, AwaitKeeps

\* The answers that send the loop on.
LEMMA AnswerGoOnKeeps ==
    ASSUME RoutingInv, NEW c \in Commands,
           NotImplemented(c) \/ (Refused(c) /\ GoOn(c)) \/ ListRead(c)
               \/ (GetRead(c) /\ GoOn(c))
    PROVE  RoutingInv'
<1>1. phase[c] = "awaiting" /\ GoOn(c)
  BY DEF NotImplemented, Refused, ListRead, GetRead, Awaiting
<1>2. at[c] \in Sources BY <1>1 DEF RoutingInv, InRange
<1>3. listed' \in [Commands -> SUBSET Ids]
  BY <1>2 DEF RoutingInv, TypeOK, NotImplemented, Refused, ListRead, GetRead, ReadState, Reported
<1>4. owners' \in [Commands -> SUBSET Sources]
  BY <1>2 DEF RoutingInv, TypeOK, NotImplemented, Refused, ListRead, GetRead, ReadState, Asked
<1>5. UNCHANGED <<django, holds, app, advertised, cmd, since, touched, pending, sent, loaded>>
  BY DEF NotImplemented, Refused, ListRead, GetRead, ReadState, Environment
<1>6. UNCHANGED found
  BY <1>1 DEF RoutingInv, TypeOK, NotImplemented, Refused, ListRead, GetRead, ReadState, GoOn
<1> QED BY <1>1, <1>3, <1>4, <1>5, <1>6, GoOnKeeps DEF RoutingInv, TypeOK

\* The answers that end a mutation.
LEMMA MutationEndKeeps ==
    ASSUME RoutingInv, NEW c \in Commands,
           Accepted(c) \/ (Refused(c) /\ Return(c, "raised")) \/ Failed(c) \/ TimedOut(c)
    PROVE  RoutingInv'
<1>1. phase[c] = "awaiting"
  BY DEF Accepted, Refused, Failed, TimedOut, Awaiting
<1>2. at[c] \in Sources /\ touched[c] = {} /\ pending[c] = {}
  BY <1>1 DEF RoutingInv, InRange, Quiet
<1>3. /\ sent' = sent /\ owners' = owners /\ loaded' = loaded
      /\ UNCHANGED <<Environment, found, listed>>
  BY DEF Accepted, Refused, Failed, TimedOut, ReadState
<1>4. /\ sent' = [sent EXCEPT ![c] = sent'[c]] /\ sent'[c] \in 0..1
      /\ loaded' \in [Sources -> BOOLEAN] /\ owners' \in [Commands -> SUBSET Sources]
  BY <1>3 DEF RoutingInv, TypeOK
<1>5. CASE Accepted(c)
  <2>1. /\ touched' = [touched EXCEPT ![c] = touched'[c]]
        /\ touched'[c] = {at[c]} \/ (touched'[c] = {} /\ cmd[c].op = "delete")
    BY <1>2, <1>5 DEF Accepted, RoutingInv, TypeOK
  <2>2. /\ result'[c] = "success" /\ Return(c, "success")
        /\ pending' = [pending EXCEPT ![c] = pending'[c]] /\ pending'[c] = {}
    BY <1>2, <1>5 DEF Accepted, RoutingInv, TypeOK, Return
  <2> QED BY <1>1, <1>2, <1>3, <1>4, <2>1, <2>2, ReturnKeeps DEF Results
<1>6. CASE (Refused(c) /\ Return(c, "raised")) \/ Failed(c)
  <2>1. /\ touched' = [touched EXCEPT ![c] = touched'[c]]
        /\ touched'[c] = {at[c]} \/ touched'[c] = {}
    BY <1>2, <1>6 DEF Refused, Failed, RoutingInv, TypeOK
  <2>2. /\ result'[c] = "raised" /\ Return(c, "raised")
        /\ pending' = [pending EXCEPT ![c] = pending'[c]] /\ pending'[c] = {}
    BY <1>2, <1>6 DEF Refused, Failed, RoutingInv, TypeOK, Return
  <2> QED BY <1>1, <1>2, <1>3, <1>4, <2>1, <2>2, ReturnKeeps DEF Results
<1>7. CASE TimedOut(c)
  <2>1. /\ touched' = [touched EXCEPT ![c] = touched'[c]] /\ touched'[c] = {}
        /\ pending' = [pending EXCEPT ![c] = pending'[c]] /\ pending'[c] = {at[c]}
    BY <1>2, <1>7 DEF TimedOut, RoutingInv, TypeOK
  <2>2. /\ result'[c] \in {"indeterminate", "OffloadTimeoutError"}
        /\ Return(c, result'[c])
    BY <1>7 DEF TimedOut, RoutingInv, TypeOK, Return
  <2> QED BY <1>1, <1>2, <1>3, <1>4, <2>1, <2>2, ReturnKeeps DEF Results
<1> QED BY <1>5, <1>6, <1>7

\* The ends that change nothing: no source left, a read that failed, no app, and
\* a publish that certainly did not happen or timed out.
LEMMA QuietEndKeeps ==
    ASSUME RoutingInv, NEW c \in Commands,
           \/ Exhausted(c) \/ ListFailed(c) \/ GetFailed(c) \/ NotPublished(c)
           \/ SendTimedOut(c) \/ (Send(c) /\ Return(c, "failed"))
    PROVE  RoutingInv'
<1>1. /\ phase[c] \notin {"idle", "done"} /\ touched[c] = {} /\ pending[c] = {}
      /\ UNCHANGED <<Environment, touched, found, sent, listed>>
  BY DEF Exhausted, ListFailed, GetFailed, NotPublished, SendTimedOut, Send, Awaiting,
         ReadState, RoutingInv, Quiet
<1>2. loaded' \in [Sources -> BOOLEAN]
  BY AskType DEF RoutingInv, TypeOK, Exhausted, ListFailed, GetFailed, NotPublished,
                 SendTimedOut, Send
<1>3. owners' \in [Commands -> SUBSET Sources]
  <2>1. CASE GetFailed(c)
    <3>1. at[c] \in Sources
      BY <2>1 DEF RoutingInv, InRange, GetFailed, Awaiting
    <3> QED BY <2>1, <3>1 DEF GetFailed, Asked, RoutingInv, TypeOK
  <2>2. CASE UNCHANGED owners BY <2>2 DEF RoutingInv, TypeOK
  <2> QED
    BY <2>1, <2>2 DEF Exhausted, ListFailed, NotPublished, SendTimedOut, Send, ReadState
<1>4. /\ touched' = [touched EXCEPT ![c] = touched'[c]] /\ touched'[c] = {}
      /\ sent' = [sent EXCEPT ![c] = sent'[c]] /\ sent'[c] \in 0..1
  BY <1>1 DEF RoutingInv, TypeOK
<1>5. CASE SendTimedOut(c)
  <2>1. pending' = [pending EXCEPT ![c] = pending'[c]] /\ pending'[c] = {0}
    BY <1>1, <1>5 DEF SendTimedOut, RoutingInv, TypeOK
  <2>2. Return(c, "indeterminate") /\ result'[c] = "indeterminate"
    BY <1>5 DEF SendTimedOut, Return, RoutingInv, TypeOK
  <2> QED BY <1>1, <1>2, <1>3, <1>4, <2>1, <2>2, ReturnKeeps DEF Results
<1>6. CASE ~SendTimedOut(c)
  <2>1. pending' = [pending EXCEPT ![c] = pending'[c]] /\ pending'[c] = {}
    BY <1>1, <1>6
       DEF Exhausted, ListFailed, GetFailed, NotPublished, Send, RoutingInv, TypeOK
  <2>2. \E r \in {"NotFoundError", "inventory", "failed", "raised"} : Return(c, r)
    BY <1>6 DEF Exhausted, ListFailed, GetFailed, NotPublished
  <2>3. /\ Return(c, result'[c])
        /\ result'[c] \in {"NotFoundError", "inventory", "failed", "raised"}
    BY <2>2 DEF Return, RoutingInv, TypeOK
  <2> QED BY <1>1, <1>2, <1>3, <1>4, <2>1, <2>3, ReturnKeeps DEF Results
<1> QED BY <1>5, <1>6

\* A publish that happened before the wait was given up.
LEMMA PublishedKeeps ==
    ASSUME RoutingInv, NEW c \in Commands, Published(c)
    PROVE  RoutingInv'
<1>1. /\ phase[c] = "sending" /\ touched[c] = {} /\ pending[c] = {}
      /\ cmd[c].op = "trigger"
      /\ UNCHANGED <<Environment, touched, pending, found, listed>>
  BY DEF Published, RoutingInv, Quiet, InRange
<1>2. /\ loaded' \in [Sources -> BOOLEAN] /\ owners' \in [Commands -> SUBSET Sources]
      /\ touched' = [touched EXCEPT ![c] = touched'[c]] /\ touched'[c] = {}
      /\ pending' = [pending EXCEPT ![c] = pending'[c]] /\ pending'[c] = {}
      /\ sent' = [sent EXCEPT ![c] = sent'[c]] /\ sent'[c] = 1
  BY <1>1 DEF Published, RoutingInv, TypeOK
<1>3. Return(c, result'[c]) /\ result'[c] \in {"success", "failed"}
  BY DEF Published, Return, RoutingInv, TypeOK
<1> QED BY <1>1, <1>2, <1>3, ReturnKeeps DEF Results

\* The steps of a trigger between its read and its publish, and the first step
\* of any command.
LEMMA ProgressKeeps ==
    ASSUME RoutingInv, NEW c \in Commands,
           \/ Start(c)
           \/ GetRead(c) /\ phase'[c] = "found"
           \/ Send(c) /\ phase'[c] = "sending"
    PROVE  RoutingInv'
<1>1. PICK p \in {"looping", "found", "sending"} : phase' = [phase EXCEPT ![c] = p]
  BY DEF Start, GetRead, Send, GoOn, Return, RoutingInv, TypeOK
<1>2. phase[c] # "done" BY DEF Start, GetRead, Send, Awaiting
<1>3. UNCHANGED <<django, loaded, holds, app, advertised, cmd, at, result, touched,
                  pending, sent, listed>>
  BY <1>1 DEF Start, GetRead, Send, GoOn, Return, Environment, ReadState, RoutingInv, TypeOK
<1>4. TypeOK'
  <2>1. phase' \in [Commands -> Phases] BY <1>1 DEF RoutingInv, TypeOK, Phases
  <2>2. since' \in [Commands -> SUBSET (Sources \X Ids)]
    BY DEF Start, GetRead, Send, Environment, RoutingInv, TypeOK
  <2>3. found' \in [Commands -> 0..N] /\ owners' \in [Commands -> SUBSET Sources]
    <3>1. CASE GetRead(c)
      <4>1. at[c] \in Sources BY <3>1 DEF RoutingInv, InRange, GetRead, Awaiting
      <4>2. Asked(c) \in SUBSET Sources
        BY <4>1 DEF Asked, RoutingInv, TypeOK
      <4>3. owners' \in [Commands -> SUBSET Sources]
        BY <3>1, <4>2 DEF GetRead, RoutingInv, TypeOK
      <4>4. at[c] \in 0..N BY <4>1, RoutingAssumption DEF Sources
      <4>5. found' = found \/ found' = [found EXCEPT ![c] = at[c]]
        BY <3>1 DEF GetRead
      <4> QED BY <4>3, <4>4, <4>5 DEF RoutingInv, TypeOK
    <3>2. CASE Start(c) \/ Send(c)
      BY <3>2 DEF Start, Send, ReadState, RoutingInv, TypeOK
    <3> QED BY <3>1, <3>2
  <2> QED BY <1>3, <2>1, <2>2, <2>3 DEF RoutingInv, TypeOK
<1>5. Quiet' BY <1>1, <1>2, <1>3 DEF RoutingInv, TypeOK, Quiet
<1>6. Confined' BY <1>3 DEF RoutingInv, Confined
<1>7. InRange'
  <2>1. p \in {"found", "sending"} => cmd[c].op = "trigger"
    BY <1>1 DEF Start, GetRead, Send, Awaiting, RoutingInv, TypeOK, InRange
  <2> QED BY <1>1, <1>3, <2>1 DEF RoutingInv, TypeOK, InRange
<1>8. AnswersCoverEffects' BY <1>3 DEF RoutingInv, AnswersCoverEffects
<1> QED BY <1>4, <1>5, <1>6, <1>7, <1>8 DEF RoutingInv

\* Calls that timed out take effect later: only after an answer that allows it.
LEMMA LateKeeps ==
    ASSUME RoutingInv, NEW c \in Commands, LandLate(c) \/ PublishLate(c)
    PROVE  RoutingInv'
<1>1. pending[c] # {} /\ phase[c] = "done"
  BY DEF LandLate, PublishLate, RoutingInv, Quiet
<1>2. result[c] \notin {"failed", "NotFoundError", "success"}
  BY <1>1 DEF RoutingInv, AnswersCoverEffects
<1>3. UNCHANGED <<django, loaded, holds, app, advertised, cmd, since, phase, at, result,
                  pending, found, listed, owners>>
  BY DEF LandLate, PublishLate, Environment, ReadState
<1>4. CASE LandLate(c)
  <2>1. PICK i \in pending[c] \cap Sources : touched' = [touched EXCEPT ![c] = @ \cup {i}]
    BY <1>4 DEF LandLate
  <2>2. i \in {at[c]}
    BY <2>1, RoutingAssumption DEF RoutingInv, Confined, Sources
  <2>3. TypeOK'
    <3>1. touched' \in [Commands -> SUBSET Sources] BY <2>1 DEF RoutingInv, TypeOK
    <3> QED BY <1>3, <1>4, <3>1 DEF LandLate, ReadState, RoutingInv, TypeOK
  <2>4. Quiet' BY <1>1, <1>3, <2>1 DEF RoutingInv, TypeOK, Quiet
  <2>5. Confined' BY <1>3, <2>1, <2>2 DEF RoutingInv, TypeOK, Confined
  <2>6. AnswersCoverEffects'
    BY <1>2, <1>3, <1>4, <2>1 DEF LandLate, ReadState, RoutingInv, TypeOK, AnswersCoverEffects
  <2> QED BY <1>3, <2>3, <2>4, <2>5, <2>6 DEF RoutingInv, InRange
<1>5. CASE PublishLate(c)
  <2>1. touched' = touched /\ sent' = [sent EXCEPT ![c] = 1] BY <1>5 DEF PublishLate
  <2>2. TypeOK' BY <1>3, <2>1 DEF RoutingInv, TypeOK
  <2>3. AnswersCoverEffects'
    BY <1>2, <1>3, <2>1 DEF RoutingInv, TypeOK, AnswersCoverEffects
  <2> QED BY <1>3, <2>1, <2>2, <2>3 DEF RoutingInv, Quiet, Confined, InRange
<1> QED BY <1>4, <1>5

\* What happens around the commands: the commands do not notice.
LEMMA WorldKeeps ==
    ASSUME RoutingInv,
           \/ Advertise \/ DjangoChanges
           \/ \E i \in Sources, x \in Ids : Added(i, x) \/ Removed(i, x)
    PROVE  RoutingInv'
<1>1. UNCHANGED <<adapter, cmd, app>>
  BY DEF Advertise, DjangoChanges, Added, Removed
<1>2. loaded' \in [Sources -> BOOLEAN] /\ django' \in BOOLEAN
  BY AskType DEF Advertise, DjangoChanges, Added, Removed, RoutingInv, TypeOK
<1>3. /\ holds' \in [Sources -> SUBSET Ids]
      /\ since' \in [Commands -> SUBSET (Sources \X Ids)]
  BY DEF Advertise, DjangoChanges, Added, Removed, RoutingInv, TypeOK
<1>4. advertised' \in SUBSET {"trigger_now", "write", "external", "stable"}
  BY DEF Advertise, DjangoChanges, Added, Removed, RoutingInv, TypeOK
<1>5. TypeOK' BY <1>1, <1>2, <1>3, <1>4 DEF RoutingInv, TypeOK, adapter
<1> QED
  BY <1>1, <1>5 DEF RoutingInv, Quiet, Confined, InRange, AnswersCoverEffects, adapter

\* Every step keeps the invariant.
LEMMA RoutingNext == RoutingInv /\ [Next]_vars => RoutingInv'
<1> SUFFICES ASSUME RoutingInv, [Next]_vars PROVE RoutingInv'
  OBVIOUS
<1>1. ASSUME NEW c \in Commands, Refused(c) PROVE RoutingInv'
  BY <1>1, AnswerGoOnKeeps, MutationEndKeeps DEF Refused
<1>2. ASSUME NEW c \in Commands, GetRead(c) PROVE RoutingInv'
  <2>1. GoOn(c) \/ phase'[c] = "found" BY <1>2 DEF GetRead, RoutingInv, TypeOK
  <2> QED BY <1>2, <2>1, AnswerGoOnKeeps, ProgressKeeps
<1>3. ASSUME NEW c \in Commands, Send(c) PROVE RoutingInv'
  <2>1. Return(c, "failed") \/ phase'[c] = "sending" BY <1>3 DEF Send, RoutingInv, TypeOK
  <2> QED BY <1>3, <2>1, QuietEndKeeps, ProgressKeeps
<1>4. ASSUME NEW c \in Commands, Step(c) PROVE RoutingInv'
  BY <1>1, <1>2, <1>3, <1>4, OfferKeeps, AnswerGoOnKeeps, MutationEndKeeps, QuietEndKeeps,
     PublishedKeeps, ProgressKeeps DEF Step
<1>5. ASSUME NEW c \in Commands, LandLate(c) \/ PublishLate(c) PROVE RoutingInv'
  BY <1>5, LateKeeps
<1>6. CASE UNCHANGED vars
  BY <1>6 DEF vars, adapter, RoutingInv, TypeOK, Quiet, Confined, InRange, AnswersCoverEffects
<1> QED BY <1>4, <1>5, <1>6, WorldKeeps DEF Next

-----------------------------------------------------------------------------
(* Theorems. *)

\* What holds of every command in every reachable state.
THEOREM RoutingInvariant == Spec => []RoutingInv
BY RoutingInit, RoutingNext, PTL DEF Spec

\* The commands, the sources and what is recorded of them stay in their types,
\* for any list of sources and any requests.
THEOREM RoutingTypeCorrect == Spec => []TypeOK
<1>1. RoutingInv => TypeOK BY DEF RoutingInv
<1> QED BY RoutingInvariant, <1>1, PTL

\* After a definite failure of the adapter no source has been changed, and neither
\* a change nor a publish can still follow; its success covers what was done, for
\* any list of sources.  (A publish whose acknowledgement was lost is excepted.)
THEOREM AnswersAreHonest == Spec => []AnswersCoverEffects
<1>1. RoutingInv => AnswersCoverEffects BY DEF RoutingInv
<1> QED BY RoutingInvariant, <1>1, PTL

\* However many writable sources there are, a command is applied by one at most,
\* and a source that may still apply it is that one.
THEOREM OneSourcePerCommand == Spec => []AtMostOneSource
<1>1. ASSUME RoutingInv PROVE AtMostOneSource
  <2>1. ASSUME NEW c \in Commands
        PROVE  Cardinality(touched[c] \cup (pending[c] \ {0})) <= 1
    <3>1. /\ IsFiniteSet({at[c]}) /\ Cardinality({at[c]}) = 1
          /\ touched[c] \cup (pending[c] \ {0}) \in SUBSET {at[c]}
      BY <1>1, FS_Singleton DEF RoutingInv, Confined
    <3> QED BY <3>1, FS_Subset
  <2> QED BY <2>1 DEF AtMostOneSource
<1> QED BY RoutingInvariant, <1>1, PTL
===============================================================================
