-------------------------- MODULE GatewayApiProofs --------------------------
(***************************************************************************)
(* Theorems about GatewayApi, for every number of replicas, callers and    *)
(* documents and every sequence of environments.                           *)
(***************************************************************************)
EXTENDS GatewayApi, SequenceTheorems, WellFoundedInduction, TLAPS

(***************************************************************************)
(* The registry.                                                           *)
(***************************************************************************)

\* A set of indices of a sequence has a greatest one.
LEMMA LastIndex ==
    ASSUME NEW n \in Nat, NEW S, S \subseteq 1..n, S # {}
    PROVE  Max(S) \in S /\ \A k \in S : k <= Max(S)
<1> DEFINE T == {n - k : k \in S}
<1>1. T \subseteq Nat /\ T # {}
  <2>1. \A k \in S : n - k \in Nat
    OBVIOUS
  <2> QED BY <2>1
<1>2. PICK t \in T : \A y \in T : ~(<<y, t>> \in OpToRel(<, Nat))
  BY <1>1, NatLessThanWellFounded, WFMin
<1>3. \A y \in T : t <= y
  <2> SUFFICES ASSUME NEW y \in T, ~(t <= y) PROVE FALSE
    OBVIOUS
  <2>1. y \in Nat /\ t \in Nat /\ y < t
    BY <1>1
  <2>2. <<y, t>> \in OpToRel(<, Nat)
    BY <2>1 DEF OpToRel
  <2> QED BY <1>2, <2>2
<1>4. PICK m \in S : t = n - m
  OBVIOUS
<1>5. \A k \in S : m >= k
  BY <1>3, <1>4
<1>6. \E x \in S : \A y \in S : x >= y
  BY <1>5
<1>7. Max(S) \in S /\ \A y \in S : Max(S) >= y
  BY <1>6 DEF Max
<1> QED BY <1>7


\* A process boots with a list of callers, no two of one name.
LEMMA BootedCallers ==
    ASSUME NEW e \in Bootable
    PROVE  /\ e \in Epochs
           /\ Len(LoadedCallers[e]) \in Nat
           /\ DOMAIN LoadedCallers[e] = 1..Len(LoadedCallers[e])
           /\ \A i, j \in DOMAIN LoadedCallers[e] :
                 LoadedCallers[e][i].name = LoadedCallers[e][j].name => i = j
           /\ \A j \in DOMAIN LoadedCallers[e] : LoadedCallers[e][j].hash.digest \in Keys
<1> DEFINE text == Environments[e]
           callers == ParseCallers(text)
<1>1. e \in Epochs /\ Load(text) # Refused /\ LoadedCallers[e] = Load(text)
  BY DEF Bootable, LoadedCallers
<1>2. LoadedCallers[e] = callers /\ callers # Refused /\ ValidCallers(callers)
  BY <1>1 DEF Load
<1>3. /\ text # NotJSON
      /\ callers = [i \in DOMAIN text |->
              [text[i] EXCEPT !.hash.upper = FALSE,
                              !.rate = IF @ = Unset THEN [requests |-> 0, window |-> 0] ELSE @]]
  BY <1>2 DEF ParseCallers
<1>4. Len(text) \in Nat /\ DOMAIN text = 1..Len(text)
  BY <1>1, <1>3, GatewayAssumption
<1>5. DOMAIN callers = 1..Len(text)
  BY <1>3, <1>4
<1>6. Len(callers) \in Nat /\ DOMAIN callers = 1..Len(callers)
  <2> DEFINE S == {callers[i] : i \in 1..Len(text)}
  <2>1. callers \in [1..Len(text) -> S]
    BY <1>3, <1>4
  <2>2. callers \in Seq(S)
    BY <1>4, <2>1, SeqDef
  <2> QED BY <2>2, LenProperties
<1> QED BY <1>1, <1>2, <1>6 DEF ValidCallers, ValidCaller

\* The registry has each hash of the list, for a caller listed with it.
LEMMA RegistryEntries ==
    ASSUME NEW e \in Bootable
    PROVE  /\ \A j \in DOMAIN LoadedCallers[e] : LoadedCallers[e][j].hash \in DOMAIN Registries[e]
           /\ \A h \in DOMAIN Registries[e] :
                 \E j \in DOMAIN LoadedCallers[e] :
                    /\ LoadedCallers[e][j].hash = h
                    /\ Registries[e][h] = [name     |-> LoadedCallers[e][j].name,
                                           docTypes |-> LoadedCallers[e][j].docTypes]
<1> DEFINE callers == LoadedCallers[e]
<1>1. Registries[e] = NewCallerRegistry(callers)
  BY DEF Registries
<1>2. Len(callers) \in Nat /\ DOMAIN callers = 1..Len(callers)
  BY BootedCallers
<1> HIDE DEF callers
<1>3. DOMAIN Registries[e] = {callers[i].hash : i \in DOMAIN callers}
  BY <1>1 DEF NewCallerRegistry
<1>4. ASSUME NEW h \in DOMAIN Registries[e]
      PROVE  \E j \in DOMAIN callers :
                /\ callers[j].hash = h
                /\ Registries[e][h] = [name |-> callers[j].name, docTypes |-> callers[j].docTypes]
  <2> DEFINE S == {i \in 1..Len(callers) : callers[i].hash = h}
  <2>1. S \subseteq 1..Len(callers) /\ S # {}
    BY <1>2, <1>3, <1>4
  <2>2. SelectLastInSeq(callers, LAMBDA d : d.hash = h) = Max(S)
    BY <2>1 DEF SelectLastInSeq
  <2>3. Registries[e][h] = [name |-> callers[Max(S)].name, docTypes |-> callers[Max(S)].docTypes]
    BY <1>1, <1>3, <1>4, <2>2 DEF NewCallerRegistry
  <2>4. Max(S) \in S
    BY <1>2, <2>1, LastIndex
  <2> HIDE DEF S
  <2>5. PICK j \in S : j = Max(S)
    BY <2>4
  <2>6. j \in DOMAIN callers /\ callers[j].hash = h
    BY <1>2 DEF S
  <2> QED BY <2>3, <2>5, <2>6
<1> QED BY <1>3, <1>4 DEF callers

\* NewGRPC has a limit for every caller of the list.
LEMMA EveryoneHasALimit ==
    ASSUME NEW e \in Bootable, NEW j \in DOMAIN LoadedCallers[e]
    PROVE  LoadedCallers[e][j].name \in DOMAIN RateLimits[e]
BY DEF RateLimits, Limits

(***************************************************************************)
(* The inductive invariant.  It holds whatever the environments list; what *)
(* the properties need of the lists is a hypothesis of their theorems.     *)
(***************************************************************************)

\* Environment e authenticates the requests of i, as the caller Entry(i, e).
Admits(i, e) == e \in Bootable /\ HashAPIKey(Request[i].key) \in DOMAIN Registries[e]

Entry(i, e) == Registries[e][HashAPIKey(Request[i].key)]

\* The document of i may be submitted under environment e, as MsgOf(i, e).
Submits(i, e) == Admits(i, e) /\ Request[i].docType \in DOMAIN Entry(i, e).docTypes

MsgOf(i, e) ==
    [key |-> i, ref |-> i, caller |-> Entry(i, e).name,
     schema |-> Entry(i, e).docTypes[Request[i].docType]]

\* An open call is the one its replica's registry makes of its request.
CallOK(call) ==
    \/ call = Idle
    \/ \E i \in Intent, r \in Replica :
          \/ /\ Admits(i, loaded[r])
             /\ call = [pc |-> "handler", intent |-> i, at |-> r, caller |-> Entry(i, loaded[r])]
          \/ /\ Submits(i, loaded[r])
             /\ call = [pc |-> "ocr", intent |-> i, at |-> r, caller |-> Entry(i, loaded[r]),
                        msg |-> MsgOf(i, loaded[r])]

\* A submit on its way was made under an environment of now or of before.
MsgOK(m) == \E i \in Intent : \E e \in 1..env : Submits(i, e) /\ m = MsgOf(i, e)

\* A document was made by such a submit.
DocOK(d) ==
    \E i \in Intent : \E e \in 1..env :
        /\ Submits(i, e)
        /\ d = [key |-> i, ref |-> i, caller |-> Entry(i, e).name,
                schema |-> Entry(i, e).docTypes[Request[i].docType], answer |-> d.answer]
        /\ d.answer \in {Nil} \cup Outcomes[i]

TypeInv ==
    /\ env \in Epochs
    /\ loaded \in [Process -> {0} \cup Bootable]
    /\ \A p \in Process : loaded[p] <= env
    /\ rpc = [a \in Slot |-> rpc[a]]
    /\ learned \in [Intent -> SUBSET Intent]
    /\ refused = [i \in Intent |-> refused[i]]

CallInv == (\A a \in Slot : CallOK(rpc[a])) /\ (\A m \in wire : MsgOK(m))

DocInv ==
    /\ \A d \in docs : DocOK(d)
    /\ \A d, e \in docs : d.key = e.key => d = e

LearnedInv == \A i \in Intent : \A k \in learned[i] : k = i /\ \E d \in docs : d.key = k

\* What the registry of environment e has against i to refuse it with this code.
Cause(i, code, e) ==
    \/ code = "UNAUTHENTICATED" /\ ~Admits(i, e)
    \/ /\ code = "INVALID_ARGUMENT" /\ Admits(i, e)
       /\ Request[i].source /\ Request[i].fields => ~Submits(i, e)

\* A refusal has its cause in the registry of the replica that gave it.
RefusedInv ==
    \A i \in Intent : \A f \in refused[i] : f.epoch \in Bootable /\ Cause(i, f.code, f.epoch)

\* A result went to the caller the document names, or that caller was unknown.
ResultInv ==
    /\ \A e \in routed : \E d \in docs : d.key = e.key /\ e.topic = d.caller
    /\ \A e \in dead :
          /\ e.epoch \in Bootable
          /\ \E d \in docs : d.key = e.key /\ ~KnownCaller(Registries[e.epoch], d.caller)

ApiInv == TypeInv /\ CallInv /\ DocInv /\ LearnedInv /\ RefusedInv /\ ResultInv

(***************************************************************************)
(* Lemmas about the operators.                                             *)
(***************************************************************************)

\* authenticate: the key's caller, or UNAUTHENTICATED, and nothing else: a key
\* that is empty is nobody's, and a caller that is known has a limit.
LEMMA AuthOutcome ==
    ASSUME NEW i \in Intent, NEW r \in Replica, loaded[r] \in Bootable
    PROVE  Authenticate(r, Request[i].key) =
              IF Admits(i, loaded[r])
                THEN [rejected |-> FALSE, caller |-> Entry(i, loaded[r])]
                ELSE [rejected |-> TRUE, code |-> "UNAUTHENTICATED"]
<1> DEFINE e == loaded[r]
           key == Request[i].key
<1>1. CASE Admits(i, e)
  <2>1. HashAPIKey(key) \in DOMAIN Registries[e]
    BY <1>1 DEF Admits
  <2>2. PICK j \in DOMAIN LoadedCallers[e] :
           /\ LoadedCallers[e][j].hash = HashAPIKey(key)
           /\ Entry(i, e) = [name     |-> LoadedCallers[e][j].name,
                             docTypes |-> LoadedCallers[e][j].docTypes]
    BY <2>1, RegistryEntries DEF Entry
  <2>3. key \in Keys
    <3>1. LoadedCallers[e][j].hash.digest \in Keys
      BY BootedCallers
    <3> QED BY <2>2, <3>1 DEF HashAPIKey
  <2>4. key # Nil
    BY <2>3, GatewayAssumption
  <2>5. Lookup(Registries[e], key) = Entry(i, e)
    BY <2>1 DEF Lookup, Entry
  <2>6. Entry(i, e) # NoCaller
    BY <2>1, NoCallerAssumption DEF Entry
  <2>7. Entry(i, e).name \in DOMAIN RateLimits[e]
    BY <2>2, EveryoneHasALimit
  <2> QED BY <1>1, <2>4, <2>5, <2>6, <2>7 DEF Authenticate
<1>2. CASE ~Admits(i, e)
  <2>1. Lookup(Registries[e], key) = NoCaller
    BY <1>2 DEF Admits, Lookup
  <2> QED BY <1>2, <2>1 DEF Authenticate
<1> QED BY <1>1, <1>2

\* The two kinds of open calls, by where they are.
LEMMA OpenCall ==
    ASSUME NEW call, CallOK(call)
    PROVE  /\ call.pc = "handler" =>
                 \E i \in Intent, r \in Replica :
                    /\ Admits(i, loaded[r])
                    /\ call = [pc |-> "handler", intent |-> i, at |-> r, caller |-> Entry(i, loaded[r])]
           /\ call.pc = "ocr" =>
                 \E i \in Intent, r \in Replica :
                    /\ Submits(i, loaded[r])
                    /\ call = [pc |-> "ocr", intent |-> i, at |-> r, caller |-> Entry(i, loaded[r]),
                               msg |-> MsgOf(i, loaded[r])]
BY DEF CallOK, Idle

\* A replica's environment is one of those up to now.
LEMMA LoadedEpoch ==
    ASSUME TypeInv, NEW r \in Process
    PROVE  /\ loaded[r] \in Bootable => loaded[r] \in 1..env /\ loaded[r] # 0
           /\ loaded[r] # 0 => loaded[r] \in Bootable
           /\ env \in Nat
<1>1. Bootable \subseteq Epochs
  BY DEF Bootable
<1>2. loaded[r] \in {0} \cup Bootable /\ loaded[r] <= env /\ env \in Epochs
  BY DEF TypeInv
<1>3. Len(Environments) \in Nat
  BY GatewayAssumption
<1>4. env \in Nat /\ \A e \in Bootable : e \in Nat \ {0}
  BY <1>1, <1>2, <1>3 DEF Epochs
<1> QED BY <1>2, <1>4

\* What is on its way to ocr for an open call is a proper submit.
LEMMA StrayMsg ==
    ASSUME TypeInv, CallInv, NEW b \in Slot, rpc[b].pc = "ocr"
    PROVE  MsgOK(rpc[b].msg)
<1>1. PICK i \in Intent, r \in Replica :
         /\ Submits(i, loaded[r])
         /\ rpc[b] = [pc |-> "ocr", intent |-> i, at |-> r, caller |-> Entry(i, loaded[r]),
                      msg |-> MsgOf(i, loaded[r])]
  BY OpenCall DEF CallInv
<1>2. loaded[r] \in 1..env
  BY <1>1, LoadedEpoch DEF Submits, Admits, Process
<1> QED BY <1>1, <1>2 DEF MsgOK

\* Replacing the call of one slot.
LEMMA SlotChange ==
    ASSUME TypeInv, CallInv, NEW a \in Slot, NEW call, rpc' = [rpc EXCEPT ![a] = call],
           CallOK(call), UNCHANGED loaded
    PROVE  /\ rpc' = [b \in Slot |-> rpc'[b]]
           /\ \A b \in Slot : CallOK(rpc[b])'
<1>1. DOMAIN rpc = Slot /\ rpc = [b \in Slot |-> rpc[b]]
  BY DEF TypeInv
<1>2. \A b \in Slot : rpc'[b] = IF b = a THEN call ELSE rpc[b]
  BY <1>1
<1>3. rpc' = [b \in Slot |-> rpc'[b]]
  BY <1>1
<1>4. \A b \in Slot : CallOK(rpc'[b])
  BY <1>2 DEF CallInv
<1>5. \A x : CallOK(x) => CallOK(x)'
  BY DEF CallOK, Admits, Submits, MsgOf, Entry
<1> QED BY <1>2, <1>3, <1>4 DEF CallOK

\* ocr makes a document of a submit, or has one of that key.
LEMMA CreateDoc ==
    ASSUME TypeInv, DocInv, NEW m, MsgOK(m), Create(m), UNCHANGED env
    PROVE  /\ DocInv'
           /\ docs \subseteq docs'
           /\ \E d \in docs' : d.key = m.key
<1>1. CASE \E d \in docs : d.key = m.key
  BY <1>1 DEF Create, DocInv, DocOK
<1>2. CASE ~\E d \in docs : d.key = m.key
  <2> DEFINE new == [key |-> m.key, ref |-> m.ref, caller |-> m.caller,
                     schema |-> m.schema, answer |-> Nil]
  <2>1. docs' = docs \cup {new}
    BY <1>2 DEF Create
  <2>2. DocOK(new)
    BY DEF MsgOK, DocOK, MsgOf
  <2>3. new.key = m.key
    OBVIOUS
  <2> HIDE DEF new
  <2>4. \A d \in docs' : DocOK(d)
    BY <2>1, <2>2 DEF DocInv
  <2>5. \A d, e \in docs' : d.key = e.key => d = e
    BY <1>2, <2>1, <2>3 DEF DocInv
  <2>6. DocInv'
    BY <2>4, <2>5 DEF DocInv, DocOK
  <2> QED BY <2>1, <2>3, <2>6
<1> QED BY <1>1, <1>2

\* An answer to a caller: an id it is given is of a document ocr has, and a refusal
\* has a cause.
LEMMA ReplyStep ==
    ASSUME TypeInv, LearnedInv, RefusedInv,
           NEW i \in Intent, NEW r, NEW code, NEW k, Reply(i, r, code, k),
           loaded[r] \in Bootable,
           \A d \in docs : \E e \in docs' : e.key = d.key,
           code \in {"OK", "ALREADY_EXISTS"} => k = i /\ \E d \in docs' : d.key = i,
           code \notin {"OK", "ALREADY_EXISTS"} \cup Retryable => Cause(i, code, loaded[r])
    PROVE  /\ learned' \in [Intent -> SUBSET Intent]
           /\ refused' = [j \in Intent |-> refused'[j]]
           /\ LearnedInv' /\ RefusedInv'
<1>1. /\ learned \in [Intent -> SUBSET Intent]
      /\ refused = [j \in Intent |-> refused[j]]
  BY DEF TypeInv
<1>2. learned' \in [Intent -> SUBSET Intent] /\ LearnedInv'
  <2>1. CASE code \in {"OK", "ALREADY_EXISTS"}
    <3>1. learned' = [learned EXCEPT ![i] = @ \cup {k}] /\ k = i
      BY <2>1 DEF Reply
    <3>2. learned' \in [Intent -> SUBSET Intent]
      BY <1>1, <3>1
    <3>3. ASSUME NEW j \in Intent, NEW x \in learned'[j]
          PROVE  x = j /\ \E d \in docs' : d.key = x
      <4>1. x \in learned[j] \/ (j = i /\ x = i)
        BY <1>1, <3>1
      <4>2. CASE x \in learned[j]
        BY <4>2 DEF LearnedInv
      <4> QED BY <2>1, <4>1, <4>2
    <3> QED BY <3>2, <3>3 DEF LearnedInv
  <2>2. CASE code \notin {"OK", "ALREADY_EXISTS"}
    <3>1. learned' = learned
      BY <2>2 DEF Reply
    <3> QED BY <1>1, <3>1 DEF LearnedInv
  <2> QED BY <2>1, <2>2
<1>3. refused' = [j \in Intent |-> refused'[j]] /\ RefusedInv'
  <2>1. CASE code \in {"OK", "ALREADY_EXISTS"} \cup Retryable
    <3>1. refused' = refused
      BY <2>1 DEF Reply
    <3> QED BY <1>1, <3>1 DEF RefusedInv, Cause, Admits, Submits, Entry
  <2>2. CASE code \notin {"OK", "ALREADY_EXISTS"} \cup Retryable
    <3> DEFINE f == [code |-> code, epoch |-> loaded[r]]
    <3>1. refused' = [refused EXCEPT ![i] = @ \cup {f}]
      BY <2>2 DEF Reply
    <3>2. f.epoch \in Bootable /\ Cause(i, f.code, f.epoch)
      BY <2>2
    <3> HIDE DEF f
    <3>3. refused' = [j \in Intent |-> refused'[j]]
      BY <1>1, <3>1
    <3>4. \A j \in Intent : \A x \in refused'[j] : x \in refused[j] \/ (j = i /\ x = f)
      BY <1>1, <3>1
    <3>5. \A j \in Intent : \A x \in refused'[j] : x.epoch \in Bootable /\ Cause(j, x.code, x.epoch)
      BY <3>2, <3>4 DEF RefusedInv
    <3> QED BY <3>3, <3>5 DEF RefusedInv, Cause, Admits, Submits, Entry
  <2> QED BY <2>1, <2>2
<1> QED BY <1>2, <1>3

\* The parts of the invariant that a step leaves alone.
LEMMA ApiFrame ==
    ASSUME ApiInv
    PROVE  /\ UNCHANGED <<env, loaded, rpc, wire>> => CallInv'
           /\ UNCHANGED <<env, docs>> => DocInv'
           /\ UNCHANGED <<env, loaded>> /\ (\A b \in Slot : CallOK(rpc[b])') /\ UNCHANGED wire => CallInv'
           /\ UNCHANGED <<learned, docs>> => LearnedInv'
           /\ UNCHANGED refused => RefusedInv'
           /\ UNCHANGED <<routed, dead, docs>> => ResultInv'
<1>1. UNCHANGED <<env, loaded, rpc, wire>> => CallInv'
  BY DEF ApiInv, CallInv, CallOK, MsgOK, Admits, Submits, Entry, MsgOf
<1>2. UNCHANGED <<env, docs>> => DocInv'
  BY DEF ApiInv, DocInv, DocOK, Admits, Submits, Entry
<1>3. UNCHANGED <<env, loaded>> /\ (\A b \in Slot : CallOK(rpc[b])') /\ UNCHANGED wire => CallInv'
  BY DEF ApiInv, CallInv, MsgOK, Admits, Submits, Entry, MsgOf
<1>4. UNCHANGED <<learned, docs>> => LearnedInv'
  BY DEF ApiInv, LearnedInv
<1>5. UNCHANGED refused => RefusedInv'
  BY DEF ApiInv, RefusedInv, Cause, Admits, Submits, Entry
<1>6. UNCHANGED <<routed, dead, docs>> => ResultInv'
  BY DEF ApiInv, ResultInv
<1> QED BY <1>1, <1>2, <1>3, <1>4, <1>5, <1>6

\* Documents that keep their key and their caller keep what is said of them.
LEMMA DocsKept ==
    ASSUME ApiInv,
           \A d \in docs : \E e \in docs' : e.key = d.key /\ e.caller = d.caller
    PROVE  /\ UNCHANGED learned => LearnedInv'
           /\ UNCHANGED <<routed, dead>> => ResultInv'
<1>1. UNCHANGED learned => LearnedInv'
  BY DEF ApiInv, LearnedInv
<1>2. ASSUME UNCHANGED <<routed, dead>> PROVE ResultInv'
  <2>1. \A e \in routed : \E d \in docs' : d.key = e.key /\ e.topic = d.caller
    BY DEF ApiInv, ResultInv
  <2>2. \A e \in dead :
           e.epoch \in Bootable /\ \E d \in docs' : d.key = e.key /\ ~KnownCaller(Registries[e.epoch], d.caller)
    BY DEF ApiInv, ResultInv
  <2> QED BY <1>2, <2>1, <2>2 DEF ResultInv
<1> QED BY <1>1, <1>2

(***************************************************************************)
(* The invariant holds initially and under each group of actions.          *)
(***************************************************************************)

LEMMA ApiInvInit == ApiInit => ApiInv
<1> SUFFICES ASSUME ApiInit PROVE ApiInv
  OBVIOUS
<1>1. TypeInv
  <2>1. 1 \in Epochs
    BY GatewayAssumption DEF Epochs
  <2>2. loaded \in [Process -> {0} \cup Bootable] /\ \A p \in Process : loaded[p] <= 1
    BY DEF ApiInit
  <2> QED BY <2>1, <2>2 DEF ApiInit, TypeInv
<1>2. CallInv
  BY DEF ApiInit, CallInv, CallOK
<1> QED BY <1>1, <1>2 DEF ApiInit, ApiInv, DocInv, LearnedInv, RefusedInv, ResultInv

\* A call at the gate: rejected, limited or admitted.
LEMMA GateStep ==
    ASSUME ApiInv, NEW i \in Intent, NEW r \in Replica,
           Reject(i, r) \/ Limited(i, r) \/ \E a \in Slot : Admit(i, r, a)
    PROVE  ApiInv'
<1> DEFINE auth == Authenticate(r, Request[i].key)
<1>1. TypeInv /\ r \in Process
  BY DEF ApiInv, Process
<1>2. loaded[r] \in Bootable
  BY <1>1, LoadedEpoch DEF Reject, Limited, Admit, Calls, Up
<1>3. auth = IF Admits(i, loaded[r])
               THEN [rejected |-> FALSE, caller |-> Entry(i, loaded[r])]
               ELSE [rejected |-> TRUE, code |-> "UNAUTHENTICATED"]
  BY <1>2, AuthOutcome
<1> HIDE DEF auth
<1>4. CASE Reject(i, r) \/ Limited(i, r)
  <2>1. UNCHANGED <<env, loaded, rpc, wire, docs, routed, dead>>
    BY <1>4 DEF Reject, Limited
  <2>2. \E code : Reply(i, r, code, Nil) /\ code \notin {"OK", "ALREADY_EXISTS"}
                 /\ (code \notin {"OK", "ALREADY_EXISTS"} \cup Retryable => Cause(i, code, loaded[r]))
    <3>1. CASE Reject(i, r)
      <4>1. auth.rejected /\ Reply(i, r, auth.code, Nil)
        BY <3>1 DEF Reject, auth
      <4>2. ~Admits(i, loaded[r]) /\ auth.code = "UNAUTHENTICATED"
        BY <1>3, <4>1
      <4> QED BY <4>1, <4>2 DEF Cause
    <3>2. CASE Limited(i, r)
      BY <3>2 DEF Limited, Retryable
    <3> QED BY <1>4, <3>1, <3>2
  <2>3. PICK code : /\ Reply(i, r, code, Nil) /\ code \notin {"OK", "ALREADY_EXISTS"}
                    /\ code \notin {"OK", "ALREADY_EXISTS"} \cup Retryable => Cause(i, code, loaded[r])
    BY <2>2
  <2>4. \A d \in docs : \E e \in docs' : e.key = d.key
    BY <2>1
  <2>5. /\ learned' \in [Intent -> SUBSET Intent]
        /\ refused' = [j \in Intent |-> refused'[j]]
        /\ LearnedInv' /\ RefusedInv'
    BY <1>2, <2>3, <2>4, ReplyStep DEF ApiInv
  <2>6. TypeInv'
    BY <1>1, <2>1, <2>5 DEF TypeInv
  <2> QED BY <2>1, <2>5, <2>6, ApiFrame DEF ApiInv
<1>5. CASE \E a \in Slot : Admit(i, r, a)
  <2>1. PICK a \in Slot : Admit(i, r, a)
    BY <1>5
  <2>2. UNCHANGED <<env, loaded, wire, docs, learned, refused, routed, dead>>
    BY <2>1 DEF Admit
  <2> DEFINE call == [pc |-> "handler", intent |-> i, at |-> r, caller |-> auth.caller]
  <2>3. ~auth.rejected /\ rpc' = [rpc EXCEPT ![a] = call]
    BY <2>1 DEF Admit, auth
  <2>4. CallOK(call)
    BY <1>3, <2>3 DEF CallOK
  <2> HIDE DEF call
  <2>5. rpc' = [b \in Slot |-> rpc'[b]] /\ \A b \in Slot : CallOK(rpc[b])'
    BY <1>1, <2>2, <2>3, <2>4, SlotChange DEF ApiInv
  <2>6. TypeInv'
    BY <1>1, <2>2, <2>5 DEF TypeInv
  <2> QED BY <2>2, <2>5, <2>6, ApiFrame DEF ApiInv
<1> QED BY <1>4, <1>5

\* A call in the handler: declined, or passed on to ocr.
LEMMA HandlerStep ==
    ASSUME ApiInv, NEW a \in Slot, Decline(a) \/ Forward(a)
    PROVE  ApiInv'
<1>1. TypeInv /\ CallInv /\ rpc[a].pc = "handler"
  BY DEF ApiInv, Decline, Forward
<1>2. PICK i \in Intent, r \in Replica :
         /\ Admits(i, loaded[r])
         /\ rpc[a] = [pc |-> "handler", intent |-> i, at |-> r, caller |-> Entry(i, loaded[r])]
  BY <1>1, OpenCall DEF CallInv
<1>3. /\ rpc[a].intent = i /\ rpc[a].at = r /\ rpc[a].caller = Entry(i, loaded[r])
      /\ loaded[r] \in Bootable
  BY <1>2 DEF Admits
<1>4. Invalid(a) <=> \/ ~Request[i].source
                    \/ ~Request[i].fields
                    \/ ~Submits(i, loaded[r])
  BY <1>2, <1>3 DEF Invalid, CallerFromContext, Submits
<1>5. CASE Decline(a)
  <2>1. /\ UNCHANGED <<env, loaded, wire, docs, routed, dead>>
        /\ Invalid(a) /\ End(a, ToStatus(ServiceError(400)))
    BY <1>5 DEF Decline
  <2>2. ToStatus(ServiceError(400)) = "INVALID_ARGUMENT"
    BY DEF ToStatus, ServiceError, FromHTTPStatus
  <2>3. rpc' = [rpc EXCEPT ![a] = Idle] /\ Reply(i, r, "INVALID_ARGUMENT", Nil)
    BY <1>1, <1>3, <2>1, <2>2 DEF End
  <2>4. Cause(i, "INVALID_ARGUMENT", loaded[r])
    BY <1>2, <1>4, <2>1 DEF Cause
  <2>5. \A d \in docs : \E e \in docs' : e.key = d.key
    BY <2>1
  <2>6. /\ learned' \in [Intent -> SUBSET Intent]
        /\ refused' = [j \in Intent |-> refused'[j]]
        /\ LearnedInv' /\ RefusedInv'
    BY <1>3, <2>3, <2>4, <2>5, ReplyStep DEF ApiInv
  <2>7. rpc' = [b \in Slot |-> rpc'[b]] /\ \A b \in Slot : CallOK(rpc[b])'
    BY <1>1, <2>1, <2>3, SlotChange DEF CallOK
  <2>8. TypeInv'
    BY <1>1, <2>1, <2>6, <2>7 DEF TypeInv
  <2> QED BY <2>1, <2>6, <2>7, <2>8, ApiFrame DEF ApiInv
<1>6. CASE Forward(a)
  <2>1. UNCHANGED <<env, loaded, wire, docs, learned, refused, routed, dead>> /\ ~Invalid(a)
    BY <1>6 DEF Forward
  <2> DEFINE call == [pc |-> "ocr", intent |-> i, at |-> r, caller |-> Entry(i, loaded[r]),
                      msg |-> MsgOf(i, loaded[r])]
  <2>2. KontrakB(a) = MsgOf(i, loaded[r])
    BY <1>3 DEF KontrakB, MsgOf, CallerFromContext
  <2>3. rpc' = [rpc EXCEPT ![a] = call]
    <3>1. rpc' = [rpc EXCEPT ![a] = [pc |-> "ocr", intent |-> rpc[a].intent, at |-> rpc[a].at,
                                     caller |-> rpc[a].caller, msg |-> KontrakB(a)]]
      BY <1>1, <1>6 DEF Forward, TypeInv
    <3> QED BY <1>3, <2>2, <3>1
  <2>4. CallOK(call)
    BY <1>4, <2>1 DEF CallOK
  <2> HIDE DEF call
  <2>5. rpc' = [b \in Slot |-> rpc'[b]] /\ \A b \in Slot : CallOK(rpc[b])'
    BY <1>1, <2>1, <2>3, <2>4, SlotChange
  <2>6. TypeInv'
    BY <1>1, <2>1, <2>5 DEF TypeInv
  <2> QED BY <2>1, <2>5, <2>6, ApiFrame DEF ApiInv
<1> QED BY <1>5, <1>6

\* A call at ocr: taken, or refused for now.
LEMMA EngineStep ==
    ASSUME ApiInv, NEW a \in Slot, Answered(a) \/ EngineRefuses(a)
    PROVE  ApiInv'
<1>1. TypeInv /\ CallInv /\ DocInv /\ rpc[a].pc = "ocr"
  BY DEF ApiInv, Answered, EngineRefuses
<1>2. PICK i \in Intent, r \in Replica :
         /\ Submits(i, loaded[r])
         /\ rpc[a] = [pc |-> "ocr", intent |-> i, at |-> r, caller |-> Entry(i, loaded[r]),
                      msg |-> MsgOf(i, loaded[r])]
  BY <1>1, OpenCall DEF CallInv
<1>3. /\ rpc[a].intent = i /\ rpc[a].at = r /\ rpc[a].msg = MsgOf(i, loaded[r])
      /\ rpc[a].msg.key = i /\ loaded[r] \in Bootable
  BY <1>2 DEF Submits, Admits, MsgOf
<1>4. UNCHANGED <<env, loaded, wire, routed, dead>>
  BY DEF Answered, EngineRefuses
<1>5. /\ DocInv' /\ docs \subseteq docs'
      /\ Answered(a) => \E d \in docs' : d.key = i
  <2>1. CASE Answered(a)
    <3>1. MsgOK(rpc[a].msg) /\ Create(rpc[a].msg)
      BY <1>1, <2>1, StrayMsg DEF Answered
    <3>2. DocInv' /\ docs \subseteq docs' /\ \E d \in docs' : d.key = rpc[a].msg.key
      BY <1>1, <1>4, <3>1, CreateDoc
    <3> QED BY <1>3, <3>2
  <2>2. CASE ~Answered(a)
    BY <1>4, <2>2, ApiFrame DEF EngineRefuses
  <2> QED BY <2>1, <2>2
<1>6. \E code : /\ End(a, code) /\ code \in {"OK", "ALREADY_EXISTS"} \cup Retryable
                /\ code \in {"OK", "ALREADY_EXISTS"} => Answered(a)
  <2>1. CASE Answered(a)
    <3>1. ToStatus(EngineError("ALREADY_EXISTS")) = "ALREADY_EXISTS"
      BY DEF ToStatus, EngineError
    <3>2. End(a, "OK") \/ End(a, "ALREADY_EXISTS")
      BY <2>1, <3>1 DEF Answered
    <3> QED BY <2>1, <3>2
  <2>2. CASE EngineRefuses(a)
    <3>1. \A code \in {"RESOURCE_EXHAUSTED", "UNAVAILABLE"} : ToStatus(EngineError(code)) = code
      BY DEF ToStatus, EngineError
    <3>2. \E code \in {"RESOURCE_EXHAUSTED", "UNAVAILABLE"} : End(a, code)
      BY <2>2, <3>1 DEF EngineRefuses
    <3> QED BY <3>2 DEF Retryable
  <2> QED BY <2>1, <2>2
<1>7. PICK code : /\ End(a, code) /\ code \in {"OK", "ALREADY_EXISTS"} \cup Retryable
                  /\ code \in {"OK", "ALREADY_EXISTS"} => Answered(a)
  BY <1>6
<1>8. rpc' = [rpc EXCEPT ![a] = Idle] /\ Reply(i, r, code, i)
  BY <1>1, <1>3, <1>7 DEF End
<1>9. \A d \in docs : \E e \in docs' : e.key = d.key /\ e.caller = d.caller
  BY <1>5
<1>10. /\ learned' \in [Intent -> SUBSET Intent]
       /\ refused' = [j \in Intent |-> refused'[j]]
       /\ LearnedInv' /\ RefusedInv'
  BY <1>3, <1>5, <1>7, <1>8, <1>9, ReplyStep DEF ApiInv
<1>11. rpc' = [b \in Slot |-> rpc'[b]] /\ \A b \in Slot : CallOK(rpc[b])'
  BY <1>1, <1>4, <1>8, SlotChange DEF CallOK
<1>12. TypeInv'
  BY <1>1, <1>4, <1>10, <1>11 DEF TypeInv
<1>13. CallInv' /\ ResultInv'
  BY <1>4, <1>9, <1>11, ApiFrame, DocsKept
<1> QED BY <1>5, <1>10, <1>12, <1>13 DEF ApiInv

\* A caller stops waiting, and what it sent may reach ocr later.
LEMMA LateStep ==
    ASSUME ApiInv, (\E a \in Slot : TimeOut(a)) \/ (\E m \in wire : TakenLate(m))
    PROVE  ApiInv'
<1>1. TypeInv /\ CallInv /\ DocInv
  BY DEF ApiInv
<1>2. UNCHANGED <<env, loaded, learned, refused, routed, dead>>
  BY DEF TimeOut, TakenLate
<1>3. \A m : MsgOK(m) => MsgOK(m)'
  BY <1>2 DEF MsgOK, Submits, Admits, Entry, MsgOf
<1>4. CASE \E a \in Slot : TimeOut(a)
  <2>1. PICK a \in Slot : TimeOut(a)
    BY <1>4
  <2>2. docs' = docs /\ rpc' = [rpc EXCEPT ![a] = Idle] /\ wire' = wire \cup Stray({a})
    BY <2>1 DEF TimeOut
  <2>3. rpc' = [b \in Slot |-> rpc'[b]] /\ \A b \in Slot : CallOK(rpc[b])'
    BY <1>1, <1>2, <2>2, SlotChange DEF CallOK
  <2>4. \A m \in wire' : MsgOK(m)
    BY <1>1, <2>2, StrayMsg DEF Stray, CallInv
  <2>5. \A m \in wire' : MsgOK(m)'
    BY <1>3, <2>4
  <2>6. CallInv'
    BY <2>3, <2>5 DEF CallInv, MsgOK
  <2>7. TypeInv'
    BY <1>1, <1>2, <2>3 DEF TypeInv
  <2> QED BY <1>2, <2>2, <2>6, <2>7, ApiFrame DEF ApiInv
<1>5. CASE \E m \in wire : TakenLate(m)
  <2>1. PICK m \in wire : TakenLate(m)
    BY <1>5
  <2>2. rpc' = rpc /\ Create(m) /\ wire' = wire \ {m}
    BY <2>1 DEF TakenLate
  <2>3. DocInv' /\ docs \subseteq docs'
    BY <1>1, <1>2, <2>2, CreateDoc DEF CallInv
  <2>4. \A b \in Slot : CallOK(rpc[b])'
    BY <1>1, <1>2, <2>2 DEF CallInv, CallOK, Submits, Admits, Entry, MsgOf
  <2>5. \A x \in wire' : MsgOK(x)'
    BY <1>1, <1>3, <2>2 DEF CallInv
  <2>6. CallInv'
    BY <2>4, <2>5 DEF CallInv, MsgOK
  <2>7. TypeInv'
    BY <1>1, <1>2, <2>2 DEF TypeInv
  <2>8. \A d \in docs : \E e \in docs' : e.key = d.key /\ e.caller = d.caller
    BY <2>3
  <2> QED BY <1>2, <2>3, <2>6, <2>7, <2>8, ApiFrame, DocsKept DEF ApiInv
<1> QED BY <1>4, <1>5

\* ocr reads a document, and the consumer hands its result on or rejects it.
LEMMA ResultStep ==
    ASSUME ApiInv, NEW d \in docs,
           (\E o \in Outcomes[d.ref] : Read(d, o)) \/ Route(d) \/ DeadLetter(d)
    PROVE  ApiInv'
<1>1. TypeInv /\ DocInv /\ ResultInv
  BY DEF ApiInv
<1>2. UNCHANGED <<env, loaded, rpc, wire, learned, refused>>
  BY DEF Read, Route, DeadLetter
<1>3. TypeInv'
  BY <1>1, <1>2 DEF TypeInv
<1>4. CallInv' /\ RefusedInv'
  BY <1>2, ApiFrame
<1>5. CASE \E o \in Outcomes[d.ref] : Read(d, o)
  <2>1. PICK o \in Outcomes[d.ref] : Read(d, o)
    BY <1>5
  <2> DEFINE new == [d EXCEPT !.answer = o]
  <2>2. docs' = (docs \ {d}) \cup {new} /\ UNCHANGED <<routed, dead>>
    BY <2>1 DEF Read
  <2>3. PICK i \in Intent : \E e \in 1..env :
           /\ Submits(i, e)
           /\ d = [key |-> i, ref |-> i, caller |-> Entry(i, e).name,
                   schema |-> Entry(i, e).docTypes[Request[i].docType], answer |-> d.answer]
    BY <1>1 DEF DocInv, DocOK
  <2>4. PICK e \in 1..env :
           /\ Submits(i, e)
           /\ d = [key |-> i, ref |-> i, caller |-> Entry(i, e).name,
                   schema |-> Entry(i, e).docTypes[Request[i].docType], answer |-> d.answer]
    BY <2>3
  <2>5. new = [key |-> i, ref |-> i, caller |-> Entry(i, e).name,
               schema |-> Entry(i, e).docTypes[Request[i].docType], answer |-> o]
    BY <2>4
  <2>6. new.key = d.key /\ new.caller = d.caller /\ new.answer = o /\ d.ref = i
    BY <2>4, <2>5
  <2>7. DocOK(new)
    BY <2>4, <2>5, <2>6 DEF DocOK
  <2> HIDE DEF new
  <2>8. \A x \in docs' : DocOK(x)
    BY <1>1, <2>2, <2>7 DEF DocInv
  <2>9. \A x, y \in docs' : x.key = y.key => x = y
    BY <1>1, <2>2, <2>6 DEF DocInv
  <2>10. DocInv'
    BY <1>2, <2>8, <2>9 DEF DocInv, DocOK, Submits, Admits, Entry
  <2>11. \A x \in docs : \E y \in docs' : y.key = x.key /\ y.caller = x.caller
    BY <2>2, <2>6
  <2> QED BY <1>2, <1>3, <1>4, <2>2, <2>10, <2>11, DocsKept DEF ApiInv
<1>6. CASE Route(d)
  <2> DEFINE new == [key |-> d.key, topic |-> d.caller]
  <2>1. routed' = routed \cup {new} /\ UNCHANGED <<docs, dead>>
    BY <1>6 DEF Route
  <2>2. new.key = d.key /\ new.topic = d.caller
    OBVIOUS
  <2> HIDE DEF new
  <2>3. ResultInv'
    BY <1>1, <2>1, <2>2 DEF ResultInv
  <2> QED BY <1>2, <1>3, <1>4, <2>1, <2>3, ApiFrame DEF ApiInv
<1>7. CASE DeadLetter(d)
  <2> DEFINE new == [key |-> d.key, epoch |-> loaded[Consumer]]
  <2>1. dead' = dead \cup {new} /\ UNCHANGED <<docs, routed>> /\ loaded[Consumer] # 0
        /\ ~KnownCaller(Registries[loaded[Consumer]], d.caller)
    BY <1>7 DEF DeadLetter, Pending, Up
  <2>2. new.key = d.key /\ new.epoch = loaded[Consumer]
    OBVIOUS
  <2>3. loaded[Consumer] \in Bootable
    BY <1>1, <2>1, LoadedEpoch DEF Process
  <2> HIDE DEF new
  <2>4. ResultInv'
    BY <1>1, <2>1, <2>2, <2>3 DEF ResultInv
  <2> QED BY <1>2, <1>3, <1>4, <2>1, <2>4, ApiFrame DEF ApiInv
<1> QED BY <1>5, <1>6, <1>7

\* A process ends or boots, and the calls it served are gone.
LEMMA ProcessStep ==
    ASSUME ApiInv, NEW p \in Process, Restart(p) \/ Boot(p)
    PROVE  ApiInv'
<1>1. TypeInv /\ CallInv
  BY DEF ApiInv
<1>2. UNCHANGED <<env, docs, learned, refused, routed, dead>>
  BY DEF Restart, Boot
<1>3. PICK e \in {0} \cup Bootable : loaded' = [loaded EXCEPT ![p] = e] /\ e <= env
  <2>1. env \in Nat
    BY <1>1, LoadedEpoch
  <2>2. \/ loaded' = [loaded EXCEPT ![p] = env] /\ env \in Bootable
        \/ loaded' = [loaded EXCEPT ![p] = 0]
    BY DEF Restart, Boot
  <2>3. 0 <= env /\ env <= env
    BY <2>1
  <2> QED BY <2>2, <2>3
<1>4. \A q \in Process : loaded'[q] = IF q = p THEN e ELSE loaded[q]
  BY <1>1, <1>3 DEF TypeInv
<1>5. /\ rpc' = [b \in Slot |-> rpc'[b]]
      /\ \A b \in Slot : rpc'[b] = Idle \/ (rpc'[b] = rpc[b] /\ rpc[b] # Idle /\ rpc[b].at # p)
      /\ \A m \in wire' : MsgOK(m)
  <2>1. CASE Restart(p)
    <3> DEFINE here == {a \in Slot : rpc[a] # Idle /\ rpc[a].at = p}
    <3>1. /\ rpc' = [a \in Slot |-> IF a \in here THEN Idle ELSE rpc[a]]
          /\ wire' = wire \cup Stray(here)
      BY <2>1 DEF Restart
    <3>2. \A m \in Stray(here) : MsgOK(m)
      BY <1>1, StrayMsg DEF Stray
    <3> QED BY <1>1, <3>1, <3>2 DEF CallInv
  <2>2. CASE Boot(p)
    <3>1. rpc' = rpc /\ wire' = wire /\ loaded[p] = 0
      BY <2>2 DEF Boot, Up
    <3>2. 0 \notin Bootable
      BY GatewayAssumption DEF Bootable, Epochs
    <3>3. ASSUME NEW b \in Slot PROVE rpc[b] = Idle \/ rpc[b].at # p
      <4>1. CallOK(rpc[b])
        BY <1>1 DEF CallInv
      <4>2. ASSUME rpc[b] # Idle PROVE \E r \in Replica : loaded[r] \in Bootable /\ rpc[b].at = r
        <5>1. PICK i \in Intent, r \in Replica :
           \/ /\ Admits(i, loaded[r])
              /\ rpc[b] = [pc |-> "handler", intent |-> i, at |-> r, caller |-> Entry(i, loaded[r])]
           \/ /\ Submits(i, loaded[r])
              /\ rpc[b] = [pc |-> "ocr", intent |-> i, at |-> r, caller |-> Entry(i, loaded[r]),
                           msg |-> MsgOf(i, loaded[r])]
          BY <4>1, <4>2 DEF CallOK
        <5> QED BY <5>1 DEF Submits, Admits
      <4> QED BY <3>1, <3>2, <4>2
    <3> QED BY <1>1, <3>1, <3>3 DEF CallInv, TypeInv
  <2> QED BY <2>1, <2>2
<1>6. TypeInv'
  <2>1. loaded' \in [Process -> {0} \cup Bootable]
    BY <1>1, <1>3 DEF TypeInv
  <2>2. \A q \in Process : loaded'[q] <= env
    BY <1>1, <1>3, <1>4 DEF TypeInv
  <2> QED BY <1>1, <1>2, <1>5, <2>1, <2>2 DEF TypeInv
<1>7. \A b \in Slot : CallOK(rpc[b])'
  <2> SUFFICES ASSUME NEW b \in Slot, rpc'[b] = rpc[b], rpc[b] # Idle, rpc[b].at # p
               PROVE  CallOK(rpc[b])'
    BY <1>5 DEF CallOK
  <2>1. PICK i \in Intent, r \in Replica :
           \/ /\ Admits(i, loaded[r])
              /\ rpc[b] = [pc |-> "handler", intent |-> i, at |-> r, caller |-> Entry(i, loaded[r])]
           \/ /\ Submits(i, loaded[r])
              /\ rpc[b] = [pc |-> "ocr", intent |-> i, at |-> r, caller |-> Entry(i, loaded[r]),
                           msg |-> MsgOf(i, loaded[r])]
    BY <1>1 DEF CallInv, CallOK
  <2>2. r # p /\ r \in Process
    BY <2>1 DEF Process
  <2>3. loaded'[r] = loaded[r]
    BY <1>4, <2>2
  <2> QED BY <2>1, <2>3 DEF CallOK, Submits, Admits, Entry, MsgOf
<1>8. CallInv'
  <2>1. \A m : MsgOK(m) => MsgOK(m)'
    BY <1>2 DEF MsgOK, Submits, Admits, Entry, MsgOf
  <2>2. \A m \in wire' : MsgOK(m)'
    BY <1>5, <2>1
  <2> QED BY <1>7, <2>2 DEF CallInv, MsgOK
<1> QED BY <1>2, <1>6, <1>8, ApiFrame DEF ApiInv

\* What was made under an environment up to now stays so when a new one comes.
LEMMA RolloutStep ==
    ASSUME ApiInv, Rollout
    PROVE  ApiInv'
<1>1. TypeInv /\ CallInv /\ DocInv
  BY DEF ApiInv
<1>2. /\ env' = env + 1 /\ env < Len(Environments)
      /\ UNCHANGED <<loaded, rpc, wire, docs, learned, refused, routed, dead>>
  BY DEF Rollout
<1>3. env \in 1..Len(Environments) /\ Len(Environments) \in Nat
  BY <1>1, GatewayAssumption DEF TypeInv, Epochs
<1>4. env' \in Epochs /\ 1..env \subseteq 1..env'
  BY <1>2, <1>3 DEF Epochs
<1>5. TypeInv'
  <2>1. Bootable \subseteq Int
    BY <1>3 DEF Bootable, Epochs
  <2>2. \A q \in Process : loaded[q] <= env'
    <3> SUFFICES ASSUME NEW q \in Process PROVE loaded[q] <= env'
      OBVIOUS
    <3>1. loaded[q] \in Int /\ loaded[q] <= env /\ env \in Int
      BY <1>1, <1>3, <2>1 DEF TypeInv
    <3> QED BY <1>2, <3>1
  <2> QED BY <1>1, <1>2, <1>4, <2>2 DEF TypeInv
<1>6. CallInv'
  <2>1. \A m : MsgOK(m) => MsgOK(m)'
    BY <1>4 DEF MsgOK, Submits, Admits, Entry, MsgOf
  <2>2. \A m \in wire' : MsgOK(m)'
    BY <1>1, <1>2, <2>1 DEF CallInv
  <2>3. \A b \in Slot : CallOK(rpc[b])'
    BY <1>1, <1>2 DEF CallInv, CallOK, Submits, Admits, Entry, MsgOf
  <2> QED BY <2>2, <2>3 DEF CallInv, MsgOK
<1>7. DocInv'
  BY <1>1, <1>2, <1>4 DEF DocInv, DocOK, Submits, Admits, Entry
<1> QED BY <1>2, <1>5, <1>6, <1>7, ApiFrame DEF ApiInv

LEMMA ApiInvStep == ApiInv /\ [ApiNext]_apiVars => ApiInv'
<1> SUFFICES ASSUME ApiInv, [ApiNext]_apiVars PROVE ApiInv'
  OBVIOUS
<1>1. CASE UNCHANGED apiVars
  BY <1>1, ApiFrame DEF apiVars, ApiInv, TypeInv
<1>2. CASE ApiNext
  BY <1>2, GateStep, HandlerStep, EngineStep, LateStep, ResultStep, ProcessStep, RolloutStep
  DEF ApiNext
<1> QED BY <1>1, <1>2

LEMMA ApiAlways == ApiSpec => []ApiInv
BY ApiInvInit, ApiInvStep, PTL DEF ApiSpec

(***************************************************************************)
(* What the environments have to be for the callers not to be confused.    *)
(* validate compares names and not hashes, so the code does not see to it: *)
(* two callers with one key take each other's place in the registry.       *)
(***************************************************************************)

\* The key of a request is listed for no caller but the one that makes the request.
KeysAreOwn ==
    \A e \in Bootable : \A j \in DOMAIN LoadedCallers[e] : \A i \in Intent :
        LoadedCallers[e][j].hash = HashAPIKey(Request[i].key) =>
            LoadedCallers[e][j].name = Request[i].name

\* No environment lists a hash twice.
HashesDistinct ==
    \A e \in Bootable : \A j, k \in DOMAIN LoadedCallers[e] :
        LoadedCallers[e][j].hash = LoadedCallers[e][k].hash => j = k

\* Whoever an environment authenticates is a caller it lists.
LEMMA EntryListed ==
    ASSUME NEW i \in Intent, NEW e, Admits(i, e)
    PROVE  /\ e \in Epochs
           /\ \E c \in Listed(e, Entry(i, e).name) :
                 c.hash = HashAPIKey(Request[i].key) /\ c.docTypes = Entry(i, e).docTypes
<1>1. e \in Bootable /\ HashAPIKey(Request[i].key) \in DOMAIN Registries[e]
  BY DEF Admits
<1>2. PICK j \in DOMAIN LoadedCallers[e] :
         /\ LoadedCallers[e][j].hash = HashAPIKey(Request[i].key)
         /\ Entry(i, e) = [name     |-> LoadedCallers[e][j].name,
                           docTypes |-> LoadedCallers[e][j].docTypes]
  BY <1>1, RegistryEntries DEF Entry
<1>3. LoadedCallers[e][j] \in Listed(e, Entry(i, e).name)
  BY <1>1, <1>2 DEF Listed
<1> QED BY <1>1, <1>2, <1>3 DEF Bootable

\* Whoever is listed with the key of a request is authenticated.
LEMMA ListedAdmitted ==
    ASSUME NEW i \in Intent, NEW e \in Bootable, NEW name,
           NEW c \in Listed(e, name), c.hash = HashAPIKey(Request[i].key)
    PROVE  Admits(i, e)
<1>1. PICK j \in DOMAIN LoadedCallers[e] : c = LoadedCallers[e][j]
  BY DEF Listed
<1> QED BY <1>1, RegistryEntries DEF Admits

\* Names are unique in an environment.
LEMMA ListedOnce ==
    ASSUME NEW e, NEW name, NEW c \in Listed(e, name), NEW d \in Listed(e, name)
    PROVE  c = d
<1>1. e \in Bootable
  BY DEF Listed
<1>2. PICK j \in DOMAIN LoadedCallers[e] : c = LoadedCallers[e][j] /\ c.name = name
  BY <1>1 DEF Listed
<1>3. PICK k \in DOMAIN LoadedCallers[e] : d = LoadedCallers[e][k] /\ d.name = name
  BY <1>1 DEF Listed
<1> QED BY <1>1, <1>2, <1>3, BootedCallers

\* A request is authenticated as its caller, if keys are their callers' own.
LEMMA EntryIsOwn ==
    ASSUME KeysAreOwn, NEW i \in Intent, NEW e, Admits(i, e)
    PROVE  Entry(i, e).name = Request[i].name
<1>1. e \in Bootable /\ HashAPIKey(Request[i].key) \in DOMAIN Registries[e]
  BY DEF Admits
<1>2. PICK j \in DOMAIN LoadedCallers[e] :
         /\ LoadedCallers[e][j].hash = HashAPIKey(Request[i].key)
         /\ Entry(i, e) = [name     |-> LoadedCallers[e][j].name,
                           docTypes |-> LoadedCallers[e][j].docTypes]
  BY <1>1, RegistryEntries DEF Entry
<1> QED BY <1>1, <1>2 DEF KeysAreOwn

\* A document is of the intent it was made for.
LEMMA DocFacts ==
    ASSUME DocInv, NEW d \in docs
    PROVE  /\ d.ref \in Intent /\ d.key = d.ref
           /\ d.answer \in {Nil} \cup Outcomes[d.ref]
           /\ \E e \in 1..env : /\ Submits(d.ref, e)
                               /\ d.caller = Entry(d.ref, e).name
                               /\ d.schema = Entry(d.ref, e).docTypes[Request[d.ref].docType]
<1>1. PICK i \in Intent :
         /\ d.answer \in {Nil} \cup Outcomes[i]
         /\ \E e \in 1..env :
               /\ Submits(i, e)
               /\ d = [key |-> i, ref |-> i, caller |-> Entry(i, e).name,
                       schema |-> Entry(i, e).docTypes[Request[i].docType], answer |-> d.answer]
  BY DEF DocInv, DocOK
<1>2. PICK e \in 1..env :
         /\ Submits(i, e)
         /\ d = [key |-> i, ref |-> i, caller |-> Entry(i, e).name,
                 schema |-> Entry(i, e).docTypes[Request[i].docType], answer |-> d.answer]
  BY <1>1
<1>3. /\ d.key = i /\ d.ref = i /\ d.caller = Entry(i, e).name
      /\ d.schema = Entry(i, e).docTypes[Request[i].docType]
  BY <1>2
<1> QED BY <1>1, <1>2, <1>3

\* Each status ocr answers with has its number's name, the same on both sides.
LEMMA StatusKept ==
    ASSUME NEW in \in {"QUEUED", "PROCESSING", "COMPLETED", "NEEDS_REVIEW", "FAILED"}
    PROVE  ConvertSubmitStatus(in) = in
<1>1. DOMAIN OcrStatus = 1..6
  BY DEF OcrStatus
<1>2. \E n \in DOMAIN OcrStatus : OcrStatus[n] = in
  <2>1. /\ OcrStatus[2] = "QUEUED" /\ OcrStatus[3] = "PROCESSING" /\ OcrStatus[4] = "COMPLETED"
        /\ OcrStatus[5] = "NEEDS_REVIEW" /\ OcrStatus[6] = "FAILED"
    BY DEF OcrStatus
  <2> QED BY <1>1, <2>1
<1>3. \A n \in DOMAIN OcrStatus : GatewayStatus[n] = OcrStatus[n]
  BY DEF OcrStatus, GatewayStatus
<1> QED BY <1>2, <1>3 DEF ConvertSubmitStatus

LEMMA FieldStatusKept ==
    ASSUME NEW in \in {"UNSPECIFIED", "EXTRACTED", "LOW_CONFIDENCE", "MISSING", "INVALID"}
    PROVE  ConvertFieldStatus(in) = in
<1>1. DOMAIN OcrFieldStatus = 1..5
  BY DEF OcrFieldStatus
<1>2. \E n \in DOMAIN OcrFieldStatus : OcrFieldStatus[n] = in
  <2>1. /\ OcrFieldStatus[1] = "UNSPECIFIED" /\ OcrFieldStatus[2] = "EXTRACTED"
        /\ OcrFieldStatus[3] = "LOW_CONFIDENCE" /\ OcrFieldStatus[4] = "MISSING"
        /\ OcrFieldStatus[5] = "INVALID"
    BY DEF OcrFieldStatus
  <2> QED BY <1>1, <2>1
<1>3. \A n \in DOMAIN OcrFieldStatus : GatewayFieldStatus[n] = OcrFieldStatus[n]
  BY DEF OcrFieldStatus, GatewayFieldStatus
<1> QED BY <1>2, <1>3 DEF ConvertFieldStatus

\* A field, with its box or without, and an issue are copied whole.
LEMMA FieldKept ==
    ASSUME NEW f, IsField(f) PROVE ConvertField(f) = f
<1>1. ConvertFieldStatus(f.status) = f.status
  BY FieldStatusKept DEF IsField
<1>2. f.bbox # Nil => ConvertBox(f.bbox) = f.bbox
  BY DEF IsField, IsBox, ConvertBox
<1>3. ConvertField(f) =
         [name |-> f.name, value |-> f.value, amount |-> f.amount, currency |-> f.currency,
          confidence |-> f.confidence, status |-> f.status, page |-> f.page, bbox |-> f.bbox]
  BY <1>1, <1>2 DEF ConvertField
<1> QED BY <1>3 DEF IsField

\* The lists of a result keep their length, their order and their members.
LEMMA ResultKept ==
    ASSUME NEW r, IsResult(r) PROVE ConvertResult(r) = r
<1>1. [j \in DOMAIN r.fields |-> ConvertField(r.fields[j])] = [j \in DOMAIN r.fields |-> r.fields[j]]
  BY FieldKept DEF IsResult
<1>2. [j \in DOMAIN r.issues |-> ConvertIssue(r.issues[j])] = [j \in DOMAIN r.issues |-> r.issues[j]]
  BY DEF IsResult, IsIssue, ConvertIssue
<1> QED BY <1>1, <1>2 DEF IsResult, ConvertResult

\* The conversion loses and invents nothing of an answer.
LEMMA AnswerKept ==
    ASSUME DocInv, NEW d \in docs
    PROVE  ConvertGetDocumentResponse(OcrAnswer(d)) = OcrAnswer(d)
<1> DEFINE ans == OcrAnswer(d)
<1>1. d.ref \in Intent /\ d.answer \in {Nil} \cup Outcomes[d.ref]
  BY DocFacts
<1>2. /\ ans = [id |-> ans.id, status |-> ans.status, result |-> ans.result, error |-> ans.error]
      /\ ans.status \in {"QUEUED", "PROCESSING", "COMPLETED", "NEEDS_REVIEW", "FAILED"}
      /\ ans.result = Nil \/ IsResult(ans.result)
      /\ ans.error = Nil \/ IsError(ans.error)
  <2>1. CASE d.answer = Nil
    BY <2>1 DEF OcrAnswer
  <2>2. CASE d.answer # Nil
    <3>1. /\ d.answer.status \in {"PROCESSING", "COMPLETED", "NEEDS_REVIEW", "FAILED"}
          /\ d.answer.result = Nil \/ IsResult(d.answer.result)
          /\ d.answer.error = Nil \/ IsError(d.answer.error)
      BY <1>1, <2>2, OutcomeAssumption
    <3>2. ans = [id |-> d.key, status |-> d.answer.status,
                 result |-> d.answer.result, error |-> d.answer.error]
      BY <2>2 DEF OcrAnswer
    <3> QED BY <3>1, <3>2
  <2> QED BY <2>1, <2>2
<1> HIDE DEF ans
<1>3. ConvertSubmitStatus(ans.status) = ans.status
  BY <1>2, StatusKept
<1>4. ans.result # Nil => ConvertResult(ans.result) = ans.result
  BY <1>2, ResultKept
<1>5. ans.error # Nil => ConvertError(ans.error) = ans.error
  BY <1>2 DEF IsError, ConvertError
<1>6. ConvertGetDocumentResponse(ans) =
         [id |-> ans.id, status |-> ans.status, result |-> ans.result, error |-> ans.error]
  BY <1>3, <1>4, <1>5 DEF ConvertGetDocumentResponse
<1> QED BY <1>2, <1>6 DEF ans

(***************************************************************************)
(* Theorems.                                                               *)
(***************************************************************************)

\* Every variable keeps its type, whatever the environments are: a call is served by
\* a replica that is up (authenticate, SubmitDocument), and what is on its way to ocr
\* names an intent and a caller that some environment lists (Submit).
THEOREM ApiTypeCorrect == ApiSpec => []ApiTypeOK
<1>1. ApiInv => ApiTypeOK
  <2> SUFFICES ASSUME ApiInv PROVE ApiTypeOK
    OBVIOUS
  <2>1. TypeInv /\ CallInv
    BY DEF ApiInv
  <2>2. ASSUME NEW a \in Slot, rpc[a] # Idle
        PROVE  rpc[a].pc \in {"handler", "ocr"} /\ rpc[a].at \in Replica /\ Up(rpc[a].at)
    <3>1. PICK i \in Intent, r \in Replica :
           \/ /\ Admits(i, loaded[r])
              /\ rpc[a] = [pc |-> "handler", intent |-> i, at |-> r, caller |-> Entry(i, loaded[r])]
           \/ /\ Submits(i, loaded[r])
              /\ rpc[a] = [pc |-> "ocr", intent |-> i, at |-> r, caller |-> Entry(i, loaded[r]),
                           msg |-> MsgOf(i, loaded[r])]
      BY <2>1, <2>2 DEF CallInv, CallOK
    <3>2. loaded[r] \in Bootable /\ r \in Process
      BY <3>1 DEF Submits, Admits, Process
    <3>3. loaded[r] # 0
      BY <2>1, <3>2, LoadedEpoch
    <3> QED BY <3>1, <3>3 DEF Up
  <2>3. ASSUME NEW m \in wire \cup Stray(Slot)
        PROVE  {m.key, m.ref} \subseteq Intent /\ \E e \in Epochs : Listed(e, m.caller) # {}
    <3>1. MsgOK(m)
      BY <2>1, StrayMsg DEF CallInv, Stray
    <3>2. PICK i \in Intent : \E e \in 1..env : Submits(i, e) /\ m = MsgOf(i, e)
      BY <3>1 DEF MsgOK
    <3>3. PICK e \in 1..env : Submits(i, e) /\ m = MsgOf(i, e)
      BY <3>2
    <3>4. m.key = i /\ m.ref = i /\ m.caller = Entry(i, e).name /\ Admits(i, e)
      BY <3>3 DEF MsgOf, Submits
    <3>5. e \in Epochs /\ Listed(e, m.caller) # {}
      BY <3>4, EntryListed
    <3> QED BY <3>4, <3>5
  <2> QED BY <2>1, <2>2, <2>3 DEF ApiTypeOK, TypeInv
<1> QED BY <1>1, ApiAlways, PTL

\* "A resubmit returns ALREADY_EXISTS with the original document_id": Submit gives ocr
\* the caller's own idempotency key, so that retries, overlaps and late arrivals at
\* any number of replicas never make a second document of one intent.
THEOREM OneDocumentEach == ApiSpec => []OneDocumentPerIntent
<1>1. ApiInv => OneDocumentPerIntent
  BY DocFacts DEF ApiInv, DocInv, OneDocumentPerIntent
<1> QED BY <1>1, ApiAlways, PTL

\* WithCaller, Submit and KnownCaller: where each key is its caller's own, a result
\* goes to the topic of the caller that asked for it.
THEOREM RoutedHome ==
    ASSUME KeysAreOwn PROVE ApiSpec => []RoutedToSubmitter
<1>1. ApiInv => RoutedToSubmitter
  <2> SUFFICES ASSUME ApiInv, NEW e \in routed
               PROVE  \E d \in docs : d.key = e.key /\ e.topic = Request[d.ref].name
    BY DEF RoutedToSubmitter
  <2>1. PICK d \in docs : d.key = e.key /\ e.topic = d.caller
    BY DEF ApiInv, ResultInv
  <2>2. d.ref \in Intent /\ \E x \in 1..env : Submits(d.ref, x) /\ d.caller = Entry(d.ref, x).name
    BY DocFacts DEF ApiInv
  <2>3. d.caller = Request[d.ref].name
    BY <2>2, EntryIsOwn DEF Submits
  <2> QED BY <2>1, <2>3
<1> QED BY <1>1, ApiAlways, PTL

\* Submit and toStatus: where each key is its caller's own, an id a caller is given is
\* of its own document, made under its own name with a schema its doc_type had.
THEOREM LearnedOwn ==
    ASSUME KeysAreOwn PROVE ApiSpec => []LearnedIsOwn
<1>1. ApiInv => LearnedIsOwn
  <2> SUFFICES ASSUME ApiInv, NEW i \in Intent, NEW k \in learned[i]
               PROVE  \E d \in docs :
                         /\ d.key = k /\ d.ref = i /\ d.caller = Request[i].name
                         /\ \E e \in 1..env : \E c \in Listed(e, d.caller) :
                               <<Request[i].docType, d.schema>> \in
                                   {<<t, c.docTypes[t]>> : t \in DOMAIN c.docTypes}
    BY DEF LearnedIsOwn
  <2>1. k = i /\ \E d \in docs : d.key = k
    BY DEF ApiInv, LearnedInv
  <2>2. PICK d \in docs : d.key = k
    BY <2>1
  <2>3. d.key = d.ref /\ d.ref = i
    BY <2>1, <2>2, DocFacts DEF ApiInv
  <2>4. PICK e \in 1..env : /\ Submits(i, e) /\ d.caller = Entry(i, e).name
                            /\ d.schema = Entry(i, e).docTypes[Request[i].docType]
    BY <2>3, DocFacts DEF ApiInv
  <2>5. Admits(i, e) /\ Request[i].docType \in DOMAIN Entry(i, e).docTypes
    BY <2>4 DEF Submits
  <2>6. d.caller = Request[i].name
    BY <2>4, <2>5, EntryIsOwn
  <2>7. PICK c \in Listed(e, d.caller) : c.docTypes = Entry(i, e).docTypes
    BY <2>4, <2>5, EntryListed
  <2>8. <<Request[i].docType, d.schema>> \in {<<t, c.docTypes[t]>> : t \in DOMAIN c.docTypes}
    BY <2>4, <2>5, <2>7
  <2> QED BY <2>2, <2>3, <2>6, <2>7, <2>8
<1> QED BY <1>1, ApiAlways, PTL

\* authenticate and toStatus: where each key is its caller's own, a caller is refused
\* for good only by an environment that does not list it with its key, or for a
\* request it may not make.
THEOREM RefusalsHaveACause ==
    ASSUME KeysAreOwn PROVE ApiSpec => []RefusedForCause
<1>1. ApiInv => RefusedForCause
  <2> SUFFICES ASSUME ApiInv, NEW i \in Intent, NEW f \in refused[i]
               PROVE  LET q   == Request[i]
                          own == {c \in Listed(f.epoch, q.name) : c.hash = HashAPIKey(q.key)}
                      IN  \/ f.code = "UNAUTHENTICATED" /\ own = {}
                          \/ /\ f.code = "INVALID_ARGUMENT"
                             /\ q.source /\ q.fields =>
                                   \A c \in own : q.docType \notin DOMAIN c.docTypes
    BY DEF RefusedForCause
  <2> DEFINE q   == Request[i]
             own == {c \in Listed(f.epoch, q.name) : c.hash = HashAPIKey(q.key)}
  <2>1. f.epoch \in Bootable /\ Cause(i, f.code, f.epoch)
    BY DEF ApiInv, RefusedInv
  <2>2. own # {} => Admits(i, f.epoch)
    BY <2>1, ListedAdmitted
  <2>3. ASSUME Admits(i, f.epoch), NEW c \in own, q.docType \in DOMAIN c.docTypes
        PROVE  Submits(i, f.epoch)
    <3>1. Entry(i, f.epoch).name = q.name
      BY <2>3, EntryIsOwn
    <3>2. PICK d \in Listed(f.epoch, q.name) : d.docTypes = Entry(i, f.epoch).docTypes
      BY <2>3, <3>1, EntryListed
    <3>3. c = d
      BY <3>2, ListedOnce
    <3> QED BY <2>3, <3>2, <3>3 DEF Submits
  <2> HIDE DEF own
  <2>4. \/ f.code = "UNAUTHENTICATED" /\ own = {}
        \/ /\ f.code = "INVALID_ARGUMENT"
           /\ q.source /\ q.fields => \A c \in own : q.docType \notin DOMAIN c.docTypes
    BY <2>1, <2>2, <2>3 DEF Cause
  <2> QED BY <2>4 DEF own
<1> QED BY <1>1, ApiAlways, PTL

\* KnownCaller and NewCallerRegistry: where no hash is listed twice, a result is
\* dead-lettered only by a consumer whose environment does not list its caller.
THEOREM DeadLettersHaveACause ==
    ASSUME KeysAreOwn, HashesDistinct PROVE ApiSpec => []DeadLetteredForCause
<1>1. ApiInv => DeadLetteredForCause
  <2> SUFFICES ASSUME ApiInv, NEW e \in dead
               PROVE  \E d \in docs : d.key = e.key /\ Listed(e.epoch, Request[d.ref].name) = {}
    BY DEF DeadLetteredForCause
  <2>1. e.epoch \in Bootable
    BY DEF ApiInv, ResultInv
  <2>2. PICK d \in docs : d.key = e.key /\ ~KnownCaller(Registries[e.epoch], d.caller)
    BY DEF ApiInv, ResultInv
  <2>3. d.ref \in Intent /\ \E x \in 1..env : Submits(d.ref, x) /\ d.caller = Entry(d.ref, x).name
    BY DocFacts DEF ApiInv
  <2>4. d.caller = Request[d.ref].name
    BY <2>3, EntryIsOwn DEF Submits
  <2>5. ASSUME NEW c \in Listed(e.epoch, d.caller) PROVE FALSE
    <3> DEFINE callers == LoadedCallers[e.epoch]
               reg == Registries[e.epoch]
    <3>1. PICK j \in DOMAIN callers : c = callers[j] /\ c.name = d.caller
      BY <2>1 DEF Listed
    <3>2. c.hash \in DOMAIN reg
      BY <2>1, <3>1, RegistryEntries
    <3>3. PICK k \in DOMAIN callers :
             /\ callers[k].hash = c.hash
             /\ reg[c.hash] = [name |-> callers[k].name, docTypes |-> callers[k].docTypes]
      BY <2>1, <3>2, RegistryEntries
    <3>4. k = j
      BY <2>1, <3>1, <3>3 DEF HashesDistinct
    <3>5. reg[c.hash].name = d.caller
      BY <3>1, <3>3, <3>4
    <3> QED BY <2>2, <3>2, <3>5 DEF KnownCaller
  <2> QED BY <2>2, <2>4, <2>5
<1> QED BY <1>1, ApiAlways, PTL

\* GetDocument, "the reconciliation sweep and the client both read the same answer ocr
\* would give": for whatever ocr answers or fails with, a poll for an id the caller was
\* given brings ocr's whole answer about its own document, or ocr's own code, or the
\* replica does not list the caller.
THEOREM PollsReadOcr == ApiSpec => []PolledIsOcrs
<1>1. ApiInv => PolledIsOcrs
  <2> SUFFICES ASSUME ApiInv, NEW i \in Intent, NEW r \in Replica, NEW k \in learned[i], Up(r)
               PROVE  \/ /\ \E d \in docs : d.ref = i /\ Poll(i, r, k, Nil) = [code |-> "OK", body |-> OcrAnswer(d)]
                         /\ \A fault \in EngineFault : Poll(i, r, k, fault) = [code |-> fault]
                      \/ /\ \A fault \in EngineFault \cup {Nil} : Poll(i, r, k, fault) = [code |-> "UNAUTHENTICATED"]
                         /\ \A c \in Listed(loaded[r], Request[i].name) : c.hash # HashAPIKey(Request[i].key)
    BY DEF PolledIsOcrs
  <2>1. TypeInv /\ DocInv /\ loaded[r] \in Bootable
    BY LoadedEpoch DEF ApiInv, Up, Process
  <2>2. Authenticate(r, Request[i].key) =
           IF Admits(i, loaded[r])
             THEN [rejected |-> FALSE, caller |-> Entry(i, loaded[r])]
             ELSE [rejected |-> TRUE, code |-> "UNAUTHENTICATED"]
    BY <2>1, AuthOutcome
  <2>3. CASE Admits(i, loaded[r])
    <3>1. \A fault : Poll(i, r, k, fault) = GetDocument(k, fault)
      BY <2>2, <2>3 DEF Poll
    <3>2. k = i /\ \E d \in docs : d.key = k
      BY DEF ApiInv, LearnedInv
    <3>3. PICK d \in docs : d.key = k
      BY <3>2
    <3>4. d.ref = i /\ k # Nil
      BY <2>1, <3>2, <3>3, DocFacts, GatewayAssumption
    <3>5. {x \in docs : x.key = k} = {d}
      BY <2>1, <3>3 DEF DocInv
    <3>6. (CHOOSE x \in {d} : TRUE) = d
      OBVIOUS
    <3>7. GetDocument(k, Nil) = [code |-> "OK", body |-> ConvertGetDocumentResponse(OcrAnswer(d))]
      BY <3>4, <3>5, <3>6 DEF GetDocument
    <3>8. ASSUME NEW fault \in EngineFault PROVE GetDocument(k, fault) = [code |-> fault]
      <4>1. fault # Nil
        BY FaultAssumption
      <4>2. ToStatus(EngineError(fault)) = fault
        BY DEF ToStatus, EngineError
      <4> QED BY <3>4, <4>1, <4>2 DEF GetDocument
    <3> QED BY <2>1, <3>1, <3>4, <3>7, <3>8, AnswerKept
  <2>4. CASE ~Admits(i, loaded[r])
    <3>1. \A fault : Poll(i, r, k, fault) = [code |-> "UNAUTHENTICATED"]
      BY <2>2, <2>4 DEF Poll
    <3> QED BY <2>1, <2>4, <3>1, ListedAdmitted
  <2> QED BY <2>3, <2>4
<1> QED BY <1>1, ApiAlways, PTL
=============================================================================
