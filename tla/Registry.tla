------------------------------ MODULE Registry ------------------------------
(***************************************************************************)
(* The caller registry: what becomes of GATEWAY_CALLERS between the        *)
(* environment and the two processes that use it (internal/config,         *)
(* internal/server/auth.go).  A gRPC replica authenticates with it, the    *)
(* consumer decides with it which caller_id has a topic, and each of them  *)
(* reads it once, when it boots.                                           *)
(*                                                                         *)
(* A text is NotJSON or a sequence of entries, the blank text being the    *)
(* empty one.  An api_key_hash is the digest it spells and whether it      *)
(* spells it in capitals; SHA-256 is taken to be injective, so a digest is *)
(* named by the key it belongs to, and a text that is no digest by a name  *)
(* outside Keys.                                                           *)
(***************************************************************************)
EXTENDS Naturals, Sequences, SequencesExt

CONSTANTS
    Names,      \* the caller names that match callerNamePattern
    Keys,       \* the API keys
    NotJSON,    \* a text json.Unmarshal refuses
    Malformed,  \* a window time.ParseDuration refuses
    Unset,      \* an absent rate_limit, an empty string in doc_types
    Refused,    \* the answer of a function that returned an error
    NoCaller    \* the answer of Lookup for a key nobody registered

\* parseCallers: one bad window refuses the whole text; an absent rate_limit is
\* the zero limit, which validate refuses.
ParseCallers(text) ==
    IF text = NotJSON \/ \E i \in DOMAIN text : text[i].rate # Unset /\ text[i].rate.window = Malformed
      THEN Refused
      ELSE [i \in DOMAIN text |->
              [text[i] EXCEPT !.hash.upper = FALSE,
                              !.rate = IF @ = Unset THEN [requests |-> 0, window |-> 0] ELSE @]]

\* What validate asks of one caller.
ValidCaller(c) ==
    /\ c.name \in Names
    /\ c.hash.digest \in Keys /\ ~c.hash.upper
    /\ c.rate.requests > 0
    /\ c.rate.window > 0
    /\ DOMAIN c.docTypes # {}
    /\ \A t \in DOMAIN c.docTypes : t # Unset /\ c.docTypes[t] # Unset

\* What validate asks of the list.  Names are compared, hashes are not.
ValidCallers(callers) ==
    /\ callers # << >>
    /\ \A i \in DOMAIN callers : ValidCaller(callers[i])
    /\ \A i, j \in DOMAIN callers : callers[i].name = callers[j].name => i = j

\* Load: the callers of a process that boots with this text, or an error.
Load(text) ==
    LET callers == ParseCallers(text)
    IN  IF callers # Refused /\ ValidCallers(callers) THEN callers ELSE Refused

HashAPIKey(key) == [digest |-> key, upper |-> FALSE]

\* The last caller of a hash wins.
NewCallerRegistry(callers) ==
    [h \in {callers[i].hash : i \in DOMAIN callers} |->
        LET c == SelectLastInSeq(callers, LAMBDA d : d.hash = h)
        IN  [name |-> callers[c].name, docTypes |-> callers[c].docTypes]]

Lookup(reg, key) ==
    IF HashAPIKey(key) \in DOMAIN reg THEN reg[HashAPIKey(key)] ELSE NoCaller

\* Mutant of KnownCaller: the loop returns after its first caller.
KnownCallerFirst(reg, callerID) == reg[CHOOSE h \in DOMAIN reg : TRUE].name = callerID

KnownCaller(reg, callerID) == \E h \in DOMAIN reg : reg[h].name = callerID

\* NewGRPC: the rate limits, by name.
Limits(callers) ==
    [n \in {callers[i].name : i \in DOMAIN callers} |->
        callers[SelectLastInSeq(callers, LAMBDA d : d.name = n)].rate]
=============================================================================
