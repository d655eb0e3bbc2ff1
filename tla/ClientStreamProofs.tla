------------------------- MODULE ClientStreamProofs -------------------------
(***************************************************************************)
(* ClientStream for every set of calls and kinds of call: the gauge counts *)
(* the streams that are open, a reported end is recorded, and what RecvMsg *)
(* recorded is the stream's status.                                        *)
(***************************************************************************)
EXTENDS ClientStream, FiniteSetTheorems, TLAPS

\* How far a call has come, and what can have been done with it by then.
CallSound ==
    \A c \in Calls :
        /\ call[c].pc = "idle" <=> call[c].kind = "none"
        /\ call[c].pc \in {"idle", "opening"} =>
            /\ end[c] = "none" /\ once[c] = "free" /\ recorded[c] = Unrecorded
        /\ call[c].pc = "open" => call[c].kind # "unary"

\* A user that has met the end of a stream is on its way back through the wrappers of an
\* open stream; what the one who receives carries is the status.
UserSound ==
    \A c \in Calls, g \in Users :
        \/ user[c][g] = Ready
        \/ /\ user[c][g].at \in {"layer", "finish"} /\ user[c][g].layer \in {1, 2}
           /\ call[c].pc = "open"
           /\ g = "recv" => end[c] = Outcome(user[c][g].err)

\* The Once: whoever runs finish is alone, and the outcome of an open stream is recorded
\* exactly when the Once is done.
OnceSound ==
    \A c \in Calls :
        /\ once[c] = "done" => recorded[c] # Unrecorded
        /\ call[c].pc = "open" /\ recorded[c] # Unrecorded => once[c] = "done"
        /\ \A g \in Users : user[c][g].at = "finish" =>
            /\ once[c] = "running" /\ Layer(user[c][g].layer) = "observability"
            /\ \A h \in Users \ {g} : user[c][h].at # "finish"

\* What a wrapper did before the error reached the next one, or the application.
Done(c, l) == IF l = "observability" THEN once[c] = "done" ELSE c \in cancelled
PassedSound ==
    \A c \in Calls :
        /\ \A g \in Users : user[c][g].layer = 2 => Done(c, inner)
        /\ told[c] # {} => \A l \in Layers : Done(c, l)

\* What was recorded for a call, unless a SendMsg did.
RecordSound ==
    \A c \in Calls :
        recorded[c].by \in {"recv", "open", "unary"} =>
            end[c] # "none" /\ recorded[c].status = end[c]

\* The gauge, with the finiteness its cardinality needs.
GaugeSound == IsFiniteSet(OpenStreams) /\ active = Cardinality(OpenStreams)

\* The inductive invariant.
Inv == TypeOK /\ CallSound /\ UserSound /\ OnceSound /\ PassedSound /\ RecordSound /\ GaugeSound

----------------------------------------------------------------------------
(* What steps do to the state.                                             *)

UserRecord == [at : {"ready", "layer", "finish"}, layer : 0..2, err : {"none", "EOF", "error"}]

\* Only the progress of call c changes.
CallMovesTo(c, pc) ==
    /\ call' \in [Calls -> [kind : Kinds \cup {"none"}, pc : {"idle", "opening", "open", "over"}]]
    /\ call'[c].pc = pc
    /\ \A d \in Calls : call'[d].kind = call[d].kind /\ (d # c => call'[d] = call[d])

\* A call that goes on keeps its kind, and the other calls keep everything.
LEMMA CallMoves ==
    ASSUME TypeOK, NEW c \in Calls, NEW pc \in {"open", "over"}, Goto(c, pc)
    PROVE  CallMovesTo(c, pc)
  <1> DEFINE q == [call[c] EXCEPT !.pc = pc]
  <1>1. /\ q \in [kind : Kinds \cup {"none"}, pc : {"idle", "opening", "open", "over"}]
        /\ q.pc = pc /\ q.kind = call[c].kind
    <2>1. call[c] \in [kind : Kinds \cup {"none"}, pc : {"idle", "opening", "open", "over"}]
      BY DEF TypeOK
    <2> QED
      BY <2>1
  <1>2. call' = [call EXCEPT ![c] = q]
    BY DEF Goto
  <1> HIDE DEF q
  <1> QED
    BY <1>1, <1>2 DEF TypeOK, CallMovesTo

\* Only user g of call c changes, to r.
UserBecomes(c, g, r) ==
    /\ user' \in [Calls -> [Users -> UserRecord]]
    /\ user'[c][g] = r
    /\ \A d \in Calls, h \in Users : d # c \/ h # g => user'[d][h] = user[d][h]

\* A goroutine of a call changes alone.
LEMMA UserMoves ==
    ASSUME TypeOK, NEW c \in Calls, NEW g \in Users, NEW r \in UserRecord,
           user' = [user EXCEPT ![c][g] = r]
    PROVE  UserBecomes(c, g, r)
  BY DEF TypeOK, UserRecord, UserBecomes

\* The wrapper next to the transport comes first, the other one second.
LEMMA LayerOrder ==
    ASSUME inner \in Layers
    PROVE  Layer(1) = inner /\ Layer(2) \in Layers /\ Layer(2) # inner
  <1>1. \E l \in Layers : l # inner
    BY DEF Layers
  <1> QED
    BY <1>1 DEF Layer

\* An error that goes on: to the second wrapper, or to the application.
GoesOn(c, g) ==
    \/ /\ user[c][g].layer = 1 /\ UNCHANGED told
       /\ UserBecomes(c, g, [at |-> "layer", layer |-> 2, err |-> user[c][g].err])
    \/ /\ user[c][g].layer = 2 /\ UserBecomes(c, g, Ready)
       /\ told' = [told EXCEPT ![c] = @ \cup {g}]

\* Advance hands an error to the second wrapper, or from there to the application.
LEMMA AdvanceGoesOn ==
    ASSUME TypeOK, NEW c \in Calls, NEW g \in Users, user[c][g].layer \in {1, 2}, Advance(c, g)
    PROVE  GoesOn(c, g)
  <1>1. user[c][g] \in UserRecord /\ Ready \in UserRecord
    BY DEF TypeOK, UserRecord, Ready
  <1> DEFINE r == [at |-> "layer", layer |-> 2, err |-> user[c][g].err]
  <1>2. r \in UserRecord
    BY <1>1 DEF UserRecord
  <1>3. CASE user[c][g].layer = 1
    <2>1. user' = [user EXCEPT ![c][g] = r] /\ UNCHANGED told
      BY <1>3 DEF Advance, TypeOK
    <2> QED
      BY <1>2, <1>3, <2>1, UserMoves DEF GoesOn
  <1>4. CASE user[c][g].layer = 2
    BY <1>1, <1>4, UserMoves DEF Advance, GoesOn
  <1> QED
    BY <1>3, <1>4

\* An error that goes on enters no finish, and passes on or reports only itself.
LEMMA GoesOnFacts ==
    ASSUME TypeOK, NEW c \in Calls, NEW g \in Users, GoesOn(c, g)
    PROVE  /\ \A d \in Calls, h \in Users :
                user'[d][h].at = "finish" => user'[d][h] = user[d][h] /\ (d # c \/ h # g)
           /\ \A d \in Calls, h \in Users :
                user'[d][h].layer = 2 => user[d][h].layer = 2 \/ (d = c /\ user[c][g].layer = 1)
           /\ \A d \in Calls : told'[d] # {} => told[d] # {} \/ (d = c /\ user[c][g].layer = 2)
  BY DEF TypeOK, GoesOn, UserBecomes, Ready

\* Steps that neither begin a stream nor record an outcome leave the gauge right.
LEMMA GaugeKept ==
    ASSUME GaugeSound, UNCHANGED <<active, recorded>>,
           \A c \in Calls : call'[c].kind = call[c].kind
    PROVE  GaugeSound'
  <1>1. OpenStreams' = OpenStreams
    BY DEF OpenStreams
  <1> QED
    BY <1>1 DEF GaugeSound

\* A stream that is recorded leaves the gauge, once.
LEMMA GaugeDown ==
    ASSUME GaugeSound, NEW c \in OpenStreams, active' = active - 1,
           \A d \in Calls : call'[d].kind = call[d].kind,
           recorded'[c] # Unrecorded, \A d \in Calls \ {c} : recorded'[d] = recorded[d]
    PROVE  GaugeSound'
  <1>1. OpenStreams' = OpenStreams \ {c}
    BY DEF OpenStreams
  <1>2. /\ IsFiniteSet(OpenStreams \ {c})
        /\ Cardinality(OpenStreams \ {c}) = Cardinality(OpenStreams) - 1
    BY FS_RemoveElement DEF GaugeSound
  <1> QED
    BY <1>1, <1>2 DEF GaugeSound

----------------------------------------------------------------------------

\* At the start no call has been made.
LEMMA InitInv == Init => Inv
  <1> SUFFICES ASSUME Init
               PROVE  Inv
    OBVIOUS
  <1> USE ClientStreamConstants DEF Init
  <1>1. TypeOK
    BY DEF TypeOK, Layers, Users, Status, Ready, Unrecorded
  <1>2. CallSound
    BY DEF CallSound
  <1>3. UserSound
    BY DEF UserSound
  <1>4. OnceSound
    BY DEF OnceSound, Ready
  <1>5. PassedSound
    BY DEF PassedSound, Ready
  <1>6. RecordSound
    BY DEF RecordSound, Unrecorded
  <1>7. GaugeSound
    <2>1. OpenStreams = {}
      BY DEF OpenStreams
    <2> QED
      BY <2>1, FS_EmptySet DEF GaugeSound
  <1> QED
    BY <1>1, <1>2, <1>3, <1>4, <1>5, <1>6, <1>7 DEF Inv

\* Every step of a call and of the users of its stream keeps the invariant.
LEMMA NextInv == Inv /\ [Next]_vars => Inv'
  <1> SUFFICES ASSUME Inv, [Next]_vars
               PROVE  Inv'
    OBVIOUS
  <1> USE ClientStreamConstants DEF Inv
  <1>1. ASSUME NEW c \in Calls, NEW k \in Kinds, Begin(c, k)
        PROVE  Inv'
    <2>1. /\ call[c].pc = "idle" /\ call'[c].pc = "opening" /\ call'[c].kind = k
          /\ call' \in [Calls -> [kind : Kinds \cup {"none"}, pc : {"idle", "opening", "open", "over"}]]
          /\ \A d \in Calls \ {c} : call'[d] = call[d]
          /\ active' = IF k = "unary" THEN active ELSE active + 1
          /\ UNCHANGED <<inner, end, user, once, recorded, cancelled, told>>
      BY <1>1 DEF Begin, StreamStarted, TypeOK
    <2>2. TypeOK'
      BY <2>1 DEF TypeOK
    <2>3. CallSound'
      BY <2>1 DEF CallSound
    <2>4. UserSound'
      BY <2>1 DEF UserSound
    <2>5. OnceSound'
      BY <2>1 DEF OnceSound, Layer
    <2>6. PassedSound'
      BY <2>1 DEF PassedSound, Done
    <2>7. RecordSound'
      BY <2>1 DEF RecordSound
    <2>8. GaugeSound'
      <3>1. c \notin OpenStreams /\ recorded[c] = Unrecorded
        BY <2>1 DEF CallSound, OpenStreams
      <3>2. CASE k = "unary"
        <4>1. OpenStreams' = OpenStreams
          BY <2>1, <3>1, <3>2 DEF OpenStreams
        <4> QED
          BY <2>1, <3>2, <4>1 DEF GaugeSound
      <3>3. CASE k # "unary"
        <4>1. OpenStreams' = OpenStreams \cup {c}
          BY <2>1, <3>1, <3>3 DEF OpenStreams
        <4> QED
          BY <2>1, <3>1, <3>3, <4>1, FS_AddElement DEF GaugeSound
      <3> QED
        BY <3>2, <3>3
    <2> QED
      BY <2>2, <2>3, <2>4, <2>5, <2>6, <2>7, <2>8
  <1>2. ASSUME NEW c \in Calls, NEW s \in Status, UnaryReturns(c, s)
        PROVE  Inv'
    <2>1. /\ call[c].pc = "opening" /\ call[c].kind = "unary" /\ CallMovesTo(c, "over")
          /\ end' = [end EXCEPT ![c] = s]
          /\ recorded' = [recorded EXCEPT ![c] = [status |-> s, by |-> "unary"]]
          /\ cancelled' = cancelled \cup {c} /\ UNCHANGED <<inner, user, once, active, told>>
      BY <1>2, CallMoves DEF UnaryReturns, Record
    <2>2. TypeOK'
      BY <2>1 DEF TypeOK, CallMovesTo, Users
    <2>3. CallSound'
      BY <2>1 DEF TypeOK, CallSound, CallMovesTo
    <2>4. UserSound'
      BY <2>1 DEF TypeOK, UserSound, CallMovesTo
    <2>5. OnceSound'
      BY <2>1 DEF TypeOK, CallSound, OnceSound, CallMovesTo, Layer
    <2>6. PassedSound'
      BY <2>1 DEF PassedSound, Done
    <2>7. RecordSound'
      BY <2>1 DEF TypeOK, RecordSound, Status
    <2>8. GaugeSound'
      <3>1. OpenStreams' = OpenStreams
        BY <2>1 DEF TypeOK, CallMovesTo, OpenStreams
      <3> QED
        BY <2>1, <3>1 DEF GaugeSound
    <2> QED
      BY <2>2, <2>3, <2>4, <2>5, <2>6, <2>7, <2>8
  <1>3. ASSUME NEW c \in Calls, OpenFails(c)
        PROVE  Inv'
    <2>1. /\ call[c].pc = "opening" /\ call[c].kind # "unary" /\ CallMovesTo(c, "over")
          /\ end' = [end EXCEPT ![c] = "error"] /\ active' = active - 1
          /\ recorded' = [recorded EXCEPT ![c] = [status |-> "error", by |-> "open"]]
          /\ cancelled' = cancelled \cup {c} /\ UNCHANGED <<inner, user, once, told>>
      BY <1>3, CallMoves DEF OpenFails, StreamFinished, Record
    <2>2. TypeOK'
      BY <2>1 DEF TypeOK, CallMovesTo, Users, Status
    <2>3. CallSound'
      BY <2>1 DEF TypeOK, CallSound, CallMovesTo
    <2>4. UserSound'
      BY <2>1 DEF TypeOK, UserSound, CallMovesTo
    <2>5. OnceSound'
      BY <2>1 DEF TypeOK, CallSound, OnceSound, CallMovesTo, Layer
    <2>6. PassedSound'
      BY <2>1 DEF PassedSound, Done
    <2>7. RecordSound'
      BY <2>1 DEF TypeOK, RecordSound
    <2>8. GaugeSound'
      <3>1. c \in OpenStreams
        BY <2>1 DEF CallSound, OpenStreams
      <3>2. recorded'[c] # Unrecorded /\ \A d \in Calls \ {c} : recorded'[d] = recorded[d]
        BY <2>1 DEF TypeOK, Unrecorded
      <3> QED
        BY <2>1, <3>1, <3>2, GaugeDown DEF CallMovesTo
    <2> QED
      BY <2>2, <2>3, <2>4, <2>5, <2>6, <2>7, <2>8
  <1>4. ASSUME NEW c \in Calls, OpenStream(c)
        PROVE  Inv'
    <2>1. /\ call[c].pc = "opening" /\ call[c].kind # "unary" /\ CallMovesTo(c, "open")
          /\ UNCHANGED <<inner, end, user, once, recorded, active, cancelled, told>>
      BY <1>4, CallMoves DEF OpenStream
    <2>2. TypeOK'
      BY <2>1 DEF TypeOK, CallMovesTo
    <2>3. CallSound'
      BY <2>1 DEF CallSound, CallMovesTo
    <2>4. UserSound'
      BY <2>1 DEF UserSound, CallMovesTo
    <2>5. OnceSound'
      BY <2>1 DEF CallSound, OnceSound, CallMovesTo, Layer
    <2>6. PassedSound'
      BY <2>1 DEF PassedSound, Done
    <2>7. RecordSound'
      BY <2>1 DEF RecordSound
    <2>8. GaugeSound'
      BY <2>1, GaugeKept DEF CallMovesTo
    <2> QED
      BY <2>2, <2>3, <2>4, <2>5, <2>6, <2>7, <2>8
  <1>5. ASSUME NEW c \in Calls, NEW s \in Status, Terminate(c, s)
        PROVE  Inv'
    <2>1. /\ call[c].pc = "open" /\ end[c] = "none" /\ end' = [end EXCEPT ![c] = s]
          /\ UNCHANGED <<inner, call, user, once, recorded, active, cancelled, told>>
      BY <1>5 DEF Terminate
    <2>2. TypeOK'
      BY <2>1 DEF TypeOK
    <2>3. CallSound'
      BY <2>1 DEF TypeOK, CallSound
    <2>4. UserSound'
      BY <2>1 DEF TypeOK, UserSound, Outcome
    <2>5. OnceSound'
      BY <2>1 DEF OnceSound, Layer
    <2>6. PassedSound'
      BY <2>1 DEF PassedSound, Done
    <2>7. RecordSound'
      BY <2>1 DEF TypeOK, RecordSound
    <2>8. GaugeSound'
      BY <2>1, GaugeKept
    <2> QED
      BY <2>2, <2>3, <2>4, <2>5, <2>6, <2>7, <2>8
  <1>6. ASSUME NEW c \in Calls, SendMsg(c)
        PROVE  Inv'
    <2>1. /\ call[c].pc = "open" /\ user[c]["send"] = Ready
          /\ end' \in {end, [end EXCEPT ![c] = IF end[c] = "none" THEN "error" ELSE end[c]]}
          /\ UNCHANGED <<inner, call, once, recorded, active, cancelled, told>>
      BY <1>6 DEF SendMsg, MayCall, TypeOK
    <2>2. PICK err \in {"EOF", "error"} :
            UserBecomes(c, "send", [at |-> "layer", layer |-> 1, err |-> err])
      <3>1. \A err \in {"EOF", "error"} : [at |-> "layer", layer |-> 1, err |-> err] \in UserRecord
        BY DEF UserRecord
      <3>2. PICK err \in {"EOF", "error"} : Returns(c, "send", err)
        BY <1>6 DEF SendMsg
      <3> QED
        BY <3>1, <3>2, UserMoves DEF Returns, Users
    <2>3. TypeOK'
      BY <2>1, <2>2 DEF TypeOK, UserBecomes, UserRecord, Status
    <2>4. CallSound'
      BY <2>1 DEF TypeOK, CallSound
    <2>5. \A d \in Calls : end[d] # "none" => end'[d] = end[d]
      BY <2>1 DEF TypeOK
    <2>6. UserSound'
      <3>1. /\ user'[c]["send"].at = "layer" /\ user'[c]["send"].layer = 1
            /\ \A d \in Calls, h \in Users : d # c \/ h # "send" => user'[d][h] = user[d][h]
        BY <2>2 DEF UserBecomes
      <3>2. \A d \in Calls, h \in Users : Outcome(user[d][h].err) # "none"
        BY DEF Outcome
      <3> QED
        BY <2>1, <2>5, <3>1, <3>2 DEF UserSound, Outcome
    <2>7. OnceSound'
      BY <2>1, <2>2 DEF OnceSound, UserBecomes, Layer, Users
    <2>8. PassedSound'
      BY <2>1, <2>2 DEF PassedSound, UserBecomes, Done
    <2>9. RecordSound'
      BY <2>1, <2>5 DEF RecordSound
    <2>10. GaugeSound'
      BY <2>1, GaugeKept
    <2> QED
      BY <2>3, <2>4, <2>6, <2>7, <2>8, <2>9, <2>10
  <1>7. ASSUME NEW c \in Calls, RecvMsg(c)
        PROVE  Inv'
    <2>1. /\ call[c].pc = "open" /\ user[c]["recv"] = Ready
          /\ UNCHANGED <<inner, end, once, recorded, active, cancelled, told>>
      BY <1>7 DEF RecvMsg, MayCall
    <2>2. CASE \E err \in {"EOF", "error"} : Returns(c, "recv", err) /\ end[c] = Outcome(err) /\ UNCHANGED call
      <3>1. \A err \in {"EOF", "error"} : [at |-> "layer", layer |-> 1, err |-> err] \in UserRecord
        BY DEF UserRecord
      <3>2. PICK err \in {"EOF", "error"} :
              /\ UserBecomes(c, "recv", [at |-> "layer", layer |-> 1, err |-> err])
              /\ end[c] = Outcome(err) /\ UNCHANGED call
        BY <2>2, <3>1, UserMoves DEF Returns, Users
      <3>3. TypeOK'
        BY <2>1, <3>2 DEF TypeOK, UserBecomes, UserRecord
      <3>4. CallSound'
        BY <2>1, <3>2 DEF CallSound
      <3>5. UserSound'
        BY <2>1, <3>2 DEF UserSound, UserBecomes, Outcome
      <3>6. OnceSound'
        BY <2>1, <3>2 DEF OnceSound, UserBecomes, Layer, Users
      <3>7. PassedSound'
        BY <2>1, <3>2 DEF PassedSound, UserBecomes, Done
      <3>8. RecordSound'
        BY <2>1 DEF RecordSound
      <3>9. GaugeSound'
        BY <2>1, <3>2, GaugeKept
      <3> QED
        BY <3>3, <3>4, <3>5, <3>6, <3>7, <3>8, <3>9
    <2>3. CASE call[c].kind = "client_stream" /\ Goto(c, "over") /\ UNCHANGED user
      <3>1. CallMovesTo(c, "over") /\ UNCHANGED user /\ \A g \in Users : user[c][g] = Ready
        BY <1>7, <2>3, CallMoves DEF RecvMsg, MayCall
      <3>2. TypeOK'
        BY <2>1, <3>1 DEF TypeOK, CallMovesTo
      <3>3. CallSound'
        BY <2>1, <3>1 DEF CallSound, CallMovesTo
      <3>4. UserSound'
        BY <2>1, <3>1 DEF UserSound, CallMovesTo
      <3>5. OnceSound'
        BY <2>1, <3>1 DEF OnceSound, CallMovesTo, Layer
      <3>6. PassedSound'
        BY <2>1, <3>1 DEF PassedSound, Done
      <3>7. RecordSound'
        BY <2>1 DEF RecordSound
      <3>8. GaugeSound'
        BY <2>1, <3>1, GaugeKept DEF CallMovesTo
      <3> QED
        BY <3>2, <3>3, <3>4, <3>5, <3>6, <3>7, <3>8
    <2> QED
      BY <1>7, <2>2, <2>3 DEF RecvMsg, Outcome
  <1>8. ASSUME NEW c \in Calls, NEW g \in Users, Cancel(c, g)
        PROVE  Inv'
    <2>1. /\ user[c][g].at = "layer" /\ Layer(user[c][g].layer) = "requestcontext"
          /\ cancelled' = cancelled \cup {c} /\ UNCHANGED <<inner, call, end, once, recorded, active>>
      BY <1>8 DEF Cancel, At
    <2>2. user[c][g].layer \in {1, 2} /\ call[c].pc = "open"
      BY <2>1 DEF UserSound, Ready
    <2>3. GoesOn(c, g)
      BY <1>8, <2>2, AdvanceGoesOn DEF Cancel
    <2>4. TypeOK'
      BY <2>1, <2>3 DEF TypeOK, GoesOn, UserBecomes, UserRecord
    <2>5. CallSound'
      BY <2>1 DEF CallSound
    <2>6. UserSound'
      BY <2>1, <2>2, <2>3 DEF UserSound, GoesOn, UserBecomes, Ready
    <2>7. OnceSound'
      BY <2>1, <2>3, GoesOnFacts DEF OnceSound, Layer
    <2>8. PassedSound'
      BY <2>1, <2>3, LayerOrder DEF TypeOK, PassedSound, Done, GoesOn, UserBecomes, Ready, Layers
    <2>9. RecordSound'
      BY <2>1 DEF RecordSound
    <2>10. GaugeSound'
      BY <2>1, GaugeKept
    <2> QED
      BY <2>4, <2>5, <2>6, <2>7, <2>8, <2>9, <2>10
  <1>9. ASSUME NEW c \in Calls, NEW g \in Users, Observe(c, g)
        PROVE  Inv'
    <2>1. /\ user[c][g].at = "layer" /\ Layer(user[c][g].layer) = "observability"
          /\ once[c] # "running" /\ UNCHANGED <<inner, call, end, recorded, active, cancelled>>
      BY <1>9 DEF Observe, At
    <2>2. user[c][g].layer \in {1, 2} /\ call[c].pc = "open"
      BY <2>1 DEF UserSound, Ready
    <2>3. CallSound' /\ RecordSound' /\ GaugeSound'
      <3>1. CallSound'
        BY <1>9, <2>1, <2>2 DEF Observe, EnterFinish, TypeOK, CallSound
      <3>2. RecordSound'
        BY <2>1 DEF RecordSound
      <3>3. GaugeSound'
        BY <2>1, GaugeKept
      <3> QED
        BY <3>1, <3>2, <3>3
    <2>4. CASE once[c] = "free"
      <3> DEFINE r == [at |-> "finish", layer |-> user[c][g].layer, err |-> user[c][g].err]
      <3>1. /\ once' = [once EXCEPT ![c] = "running"] /\ UNCHANGED told
            /\ user' = [user EXCEPT ![c][g] = r]
        BY <1>9, <2>4 DEF Observe, EnterFinish, TypeOK
      <3>2. r \in UserRecord
        BY DEF TypeOK, UserRecord
      <3>3. UserBecomes(c, g, r)
        BY <3>1, <3>2, UserMoves
      <3>4. TypeOK'
        BY <2>1, <3>1, <3>3 DEF TypeOK, UserBecomes, UserRecord
      <3>5. UserSound'
        BY <2>1, <2>2, <3>3 DEF UserSound, UserBecomes, Ready
      <3>6. OnceSound'
        BY <2>1, <2>4, <3>1, <3>3 DEF TypeOK, OnceSound, UserBecomes, Layer
      <3>7. PassedSound'
        BY <2>1, <2>4, <3>1, <3>3 DEF TypeOK, PassedSound, Done, UserBecomes, Layers
      <3> QED
        BY <2>3, <3>4, <3>5, <3>6, <3>7
    <2>5. CASE once[c] # "free"
      <3>1. once[c] = "done" /\ UNCHANGED once /\ GoesOn(c, g)
        BY <1>9, <2>1, <2>2, <2>5, AdvanceGoesOn DEF Observe, TypeOK
      <3>2. TypeOK'
        BY <2>1, <3>1 DEF TypeOK, GoesOn, UserBecomes, UserRecord
      <3>3. UserSound'
        BY <2>1, <2>2, <3>1 DEF UserSound, GoesOn, UserBecomes, Ready
      <3>4. OnceSound'
        BY <2>1, <3>1, GoesOnFacts DEF OnceSound, Layer
      <3>5. PassedSound'
        <4>1. /\ user[c][g].layer = 1 => inner = "observability"
              /\ user[c][g].layer = 2 => inner = "requestcontext"
          BY <2>1, LayerOrder DEF TypeOK, Layers
        <4>2. user[c][g].layer = 2 => \A l \in Layers : Done(c, l)
          BY <3>1, <4>1 DEF PassedSound, Done, Layers
        <4>3. \A d \in Calls, l \in Layers : Done(d, l)' <=> Done(d, l)
          BY <2>1, <3>1 DEF Done
        <4>4. user[c][g].layer = 1 => Done(c, inner)
          BY <3>1, <4>1 DEF Done
        <4>5. inner' = inner /\ inner \in Layers
          BY <2>1 DEF TypeOK
        <4> QED
          BY <3>1, <4>2, <4>3, <4>4, <4>5, GoesOnFacts DEF PassedSound
      <3> QED
        BY <2>3, <3>2, <3>3, <3>4, <3>5
    <2> QED
      BY <2>4, <2>5
  <1>10. ASSUME NEW c \in Calls, NEW g \in Users, Finish(c, g)
         PROVE  Inv'
    <2>1. /\ user[c][g].at = "finish" /\ active' = active - 1
          /\ recorded' = [recorded EXCEPT ![c] = [status |-> Outcome(user[c][g].err), by |-> g]]
          /\ once' = [once EXCEPT ![c] = "done"] /\ UNCHANGED <<inner, call, end, cancelled>>
      BY <1>10 DEF Finish, StreamFinished, Record
    <2>2. /\ user[c][g].layer \in {1, 2} /\ call[c].pc = "open"
          /\ g = "recv" => end[c] = Outcome(user[c][g].err)
      BY <2>1 DEF UserSound, Ready
    <2>3. /\ once[c] = "running" /\ Layer(user[c][g].layer) = "observability"
          /\ \A h \in Users \ {g} : user[c][h].at # "finish"
      BY <2>1 DEF OnceSound
    <2>4. GoesOn(c, g)
      BY <1>10, <2>2, AdvanceGoesOn DEF Finish
    <2>5. TypeOK'
      BY <2>1, <2>4 DEF TypeOK, GoesOn, UserBecomes, UserRecord, Outcome, Status
    <2>6. CallSound'
      BY <2>1, <2>2 DEF TypeOK, CallSound
    <2>7. UserSound'
      BY <2>1, <2>2, <2>4 DEF UserSound, GoesOn, UserBecomes, Ready
    <2>8. OnceSound'
      <3>1. recorded'[c] # Unrecorded
        BY <2>1 DEF TypeOK, Unrecorded, Outcome
      <3>2. \A h \in Users : user'[c][h].at # "finish"
        BY <2>3, <2>4 DEF GoesOn, UserBecomes, Ready
      <3>3. \A d \in Calls \ {c} : /\ once'[d] = once[d] /\ recorded'[d] = recorded[d]
                                   /\ \A h \in Users : user'[d][h] = user[d][h]
        BY <2>1, <2>4 DEF TypeOK, GoesOn, UserBecomes
      <3>4. once'[c] = "done"
        BY <2>1 DEF TypeOK
      <3> QED
        BY <2>1, <3>1, <3>2, <3>3, <3>4 DEF OnceSound, Layer
    <2>9. PassedSound'
      BY <2>1, <2>3, <2>4, LayerOrder DEF TypeOK, PassedSound, Done, GoesOn, UserBecomes, Ready, Layers
    <2>10. RecordSound'
      BY <2>1, <2>2 DEF TypeOK, RecordSound, Outcome, Users
    <2>11. GaugeSound'
      <3>1. c \in OpenStreams
        BY <2>2, <2>3 DEF CallSound, OnceSound, OpenStreams
      <3>2. recorded'[c] # Unrecorded /\ \A d \in Calls \ {c} : recorded'[d] = recorded[d]
        BY <2>1 DEF TypeOK, Unrecorded, Outcome
      <3> QED
        BY <2>1, <3>1, <3>2, GaugeDown
    <2> QED
      BY <2>5, <2>6, <2>7, <2>8, <2>9, <2>10, <2>11
  <1>11. CASE UNCHANGED vars
    <2>1. TypeOK' /\ CallSound' /\ UserSound' /\ RecordSound'
      BY <1>11 DEF vars, TypeOK, CallSound, UserSound, RecordSound
    <2>2. OnceSound' /\ PassedSound'
      BY <1>11 DEF vars, OnceSound, PassedSound, Done, Layer
    <2>3. GaugeSound'
      BY <1>11, GaugeKept DEF vars
    <2> QED
      BY <2>1, <2>2, <2>3
  <1> QED
    BY <1>1, <1>2, <1>3, <1>4, <1>5, <1>6, <1>7, <1>8, <1>9, <1>10, <1>11 DEF Next, UserStep

\* The inductive invariant holds in every behaviour.
THEOREM Invariance == Spec => []Inv
  BY InitInv, NextInv, PTL DEF Spec

\* Calls, users, the Once and what is recorded keep their types.
THEOREM ClientTypes == Spec => []TypeOK
  <1>1. Inv => TypeOK
    BY DEF Inv
  <1> QED
    BY <1>1, Invariance, PTL

\* The gauge of active streams counts every open stream once, however the ends that its
\* sender and its receiver see interleave.
THEOREM GaugeIsRight == Spec => []GaugeCountsOpenStreams
  <1>1. Inv => GaugeCountsOpenStreams
    BY DEF Inv, GaugeSound, GaugeCountsOpenStreams
  <1> QED
    BY <1>1, Invariance, PTL

\* The application learns the end of a stream only after it was recorded and the context
\* released, whichever interceptor is the outer one.
THEOREM ReportedMeansRecorded == Spec => []ReportedEndIsRecorded
  <1>1. Inv => ReportedEndIsRecorded
    BY DEF Inv, OnceSound, PassedSound, Done, Layers, ReportedEndIsRecorded
  <1> QED
    BY <1>1, Invariance, PTL

\* What RecvMsg, a failed open or a unary call recorded is how the call ended.
THEOREM RecvOutcomeIsRight == Spec => []RecvOutcomeIsStatus
  <1>1. Inv => RecvOutcomeIsStatus
    BY DEF Inv, RecordSound, RecvOutcomeIsStatus
  <1> QED
    BY <1>1, Invariance, PTL
=============================================================================
