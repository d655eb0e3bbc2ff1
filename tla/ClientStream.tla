---------------------------- MODULE ClientStream ----------------------------
(***************************************************************************)
(* Outbound gRPC calls through the two client interceptors: observability, *)
(* which records the outcome of a call and counts the active streams, and  *)
(* requestcontext, which gives a call its deadline and cancels it (with    *)
(* Timeout > 0).  Either may be the outer one.                             *)
(*                                                                         *)
(* A stream has two users, the goroutine that sends and the one that       *)
(* receives; both may learn of its end, in any order, and both wrappers    *)
(* act on every error on its way back.  The transport's part is grpc-go's: *)
(* SendMsg answers io.EOF once the stream ended, whatever its status, and  *)
(* only RecvMsg tells the status; a RecvMsg that is not for a stream of    *)
(* responses answers nil at the successful end.                            *)
(***************************************************************************)
EXTENDS Integers, FiniteSets

CONSTANTS
    Calls,   \* outbound calls
    Kinds    \* the kinds of call that are made

ASSUME ClientStreamConstants ==
    Kinds \subseteq {"unary", "client_stream", "server_stream", "bidi_stream"}

VARIABLES
    inner,      \* the interceptor next to the transport
    call,       \* call[c]: what the application is doing with the call
    end,        \* end[c]: the status the transport ended the stream with
    user,       \* user[c][g]: where the sender or the receiver is
    once,       \* once[c]: the sync.Once of observedClientStream
    recorded,   \* recorded[c]: the outcome and who recorded it
    active,     \* grpc_client_active_streams
    cancelled,  \* calls whose context was cancelled
    told        \* told[c]: users that were given an error (history)

vars == <<inner, call, end, user, once, recorded, active, cancelled, told>>

Layers == {"observability", "requestcontext"}
Users == {"send", "recv"}
Status == {"OK", "error"}
Unrecorded == [status |-> "none", by |-> "none"]
Ready == [at |-> "ready", layer |-> 0, err |-> "none"]

TypeOK ==
    /\ inner \in Layers
    /\ call \in [Calls -> [kind : Kinds \cup {"none"}, pc : {"idle", "opening", "open", "over"}]]
    /\ end \in [Calls -> Status \cup {"none"}]
    /\ user \in [Calls -> [Users -> [at : {"ready", "layer", "finish"}, layer : 0..2,
                                     err : {"none", "EOF", "error"}]]]
    /\ once \in [Calls -> {"free", "running", "done"}]
    /\ recorded \in [Calls -> [status : Status \cup {"none"},
                               by : Users \cup {"none", "open", "unary"}]]
    /\ active \in Int
    /\ cancelled \in SUBSET Calls
    /\ told \in [Calls -> SUBSET Users]

Init ==
    /\ inner \in Layers
    /\ call = [c \in Calls |-> [kind |-> "none", pc |-> "idle"]]
    /\ end = [c \in Calls |-> "none"]
    /\ user = [c \in Calls |-> [g \in Users |-> Ready]]
    /\ once = [c \in Calls |-> "free"]
    /\ recorded = [c \in Calls |-> Unrecorded]
    /\ active = 0 /\ cancelled = {}
    /\ told = [c \in Calls |-> {}]

Goto(c, pc) == call' = [call EXCEPT ![c].pc = pc]
Record(c, status, by) == recorded' = [recorded EXCEPT ![c] = [status |-> status, by |-> by]]

(* The gauge of RequestMetrics                                             *)
StreamStarted == active' = active + 1
StreamFinished(c, status, by) == active' = active - 1 /\ Record(c, status, by)

-----------------------------------------------------------------------------
(* Opening a call                                                          *)

(* A span, the start time and, for a stream, one more active stream        *)
Begin(c, k) ==
    /\ call[c].pc = "idle"
    /\ call' = [call EXCEPT ![c] = [kind |-> k, pc |-> "opening"]]
    /\ IF k = "unary" THEN UNCHANGED active ELSE StreamStarted
    /\ UNCHANGED <<inner, end, user, once, recorded, cancelled, told>>

(* A unary call returns: finish with the outcome, and the deferred cancel  *)
UnaryReturns(c, status) ==
    /\ call[c].pc = "opening" /\ call[c].kind = "unary"
    /\ Goto(c, "over")
    /\ end' = [end EXCEPT ![c] = status]
    /\ Record(c, status, "unary")
    /\ cancelled' = cancelled \cup {c}
    /\ UNCHANGED <<inner, user, once, active, told>>

(* The streamer fails: finish at once, cancel the call                     *)
OpenFails(c) ==
    /\ call[c].pc = "opening" /\ call[c].kind # "unary"
    /\ Goto(c, "over")
    /\ end' = [end EXCEPT ![c] = "error"]
    /\ StreamFinished(c, "error", "open")
    /\ cancelled' = cancelled \cup {c}
    /\ UNCHANGED <<inner, user, once, told>>

(* The stream is wrapped; its context lives on                             *)
OpenStream(c) ==
    /\ call[c].pc = "opening" /\ call[c].kind # "unary"
    /\ Goto(c, "open")
    /\ UNCHANGED <<inner, end, user, once, recorded, active, cancelled, told>>

(* The server, the network, the deadline or the application ends a stream  *)
Terminate(c, status) ==
    /\ call[c].pc = "open" /\ end[c] = "none"
    /\ end' = [end EXCEPT ![c] = status]
    /\ UNCHANGED <<inner, call, user, once, recorded, active, cancelled, told>>

-----------------------------------------------------------------------------
(* Using a stream.  Only calls that return the stream's end are steps.     *)

(* What the generated code allows: the request of a server stream is sent  *)
(* before the application gets the stream, and a client stream's response  *)
(* is received once, after the last SendMsg.                               *)
MayCall(c, g) ==
    /\ call[c].pc = "open" /\ user[c][g] = Ready
    /\ call[c].kind # "bidi_stream" =>
        /\ \A h \in Users : user[c][h] = Ready
        /\ IF call[c].kind = "client_stream" THEN "recv" \notin told[c]
           ELSE "send" \notin told[c] /\ (g = "send" => told[c] = {})

Returns(c, g, err) ==
    user' = [user EXCEPT ![c][g] = [at |-> "layer", layer |-> 1, err |-> err]]

(* SendMsg on a stream that ended, or a message that cannot be sent, which *)
(* ends the stream                                                         *)
SendMsg(c) ==
    /\ MayCall(c, "send")
    /\ \/ /\ end[c] # "none" /\ call[c].kind \in {"client_stream", "bidi_stream"}
          /\ Returns(c, "send", "EOF")
          /\ UNCHANGED end
       \/ /\ Returns(c, "send", "error")
          /\ end' = [end EXCEPT ![c] = IF @ = "none" THEN "error" ELSE @]
    /\ UNCHANGED <<inner, call, once, recorded, active, cancelled, told>>

(* RecvMsg at the end of the stream: the failed status, io.EOF, or, for a  *)
(* client stream, its one response and nil                                 *)
RecvMsg(c) ==
    /\ MayCall(c, "recv") /\ end[c] # "none"
    /\ \/ /\ end[c] = "error" /\ Returns(c, "recv", "error")
          /\ UNCHANGED call
       \/ /\ end[c] = "OK" /\ call[c].kind # "client_stream"
          /\ Returns(c, "recv", "EOF")
          /\ UNCHANGED call
       \/ /\ end[c] = "OK" /\ call[c].kind = "client_stream"
          /\ Goto(c, "over")
          /\ UNCHANGED user
    /\ UNCHANGED <<inner, end, once, recorded, active, cancelled, told>>

Layer(i) == IF i = 1 THEN inner ELSE CHOOSE l \in Layers : l # inner
At(c, g, l) == user[c][g].at = "layer" /\ Layer(user[c][g].layer) = l

(* The next wrapper, or the application                                    *)
Advance(c, g) ==
    IF user[c][g].layer = 1
    THEN /\ user' = [user EXCEPT ![c][g] = [at |-> "layer", layer |-> 2, err |-> @.err]]
         /\ UNCHANGED told
    ELSE /\ user' = [user EXCEPT ![c][g] = Ready]
         /\ told' = [told EXCEPT ![c] = @ \cup {g}]

(* cancelingClientStream                                                   *)
Cancel(c, g) ==
    /\ At(c, g, "requestcontext")
    /\ cancelled' = cancelled \cup {c}
    /\ Advance(c, g)
    /\ UNCHANGED <<inner, call, end, once, recorded, active>>

EnterFinish(c, g) ==
    /\ once' = [once EXCEPT ![c] = "running"]
    /\ user' = [user EXCEPT ![c][g] = [at |-> "finish", layer |-> @.layer, err |-> @.err]]
    /\ UNCHANGED told

\* A stream that finishes whenever it meets an error.
ObserveEveryTime(c, g) ==
    /\ At(c, g, "observability")
    /\ EnterFinish(c, g)
    /\ UNCHANGED <<inner, call, end, recorded, active, cancelled>>

\* A flag instead of the Once: the second user does not wait for the first.
ObserveByFlag(c, g) ==
    /\ At(c, g, "observability")
    /\ IF once[c] = "free" THEN EnterFinish(c, g) ELSE UNCHANGED once /\ Advance(c, g)
    /\ UNCHANGED <<inner, call, end, recorded, active, cancelled>>

\* A wrapper that observes only SendMsg.
ObserveSendOnly(c, g) ==
    /\ At(c, g, "observability")
    /\ once[c] # "running"
    /\ IF once[c] = "free" /\ g = "send" THEN EnterFinish(c, g) ELSE UNCHANGED once /\ Advance(c, g)
    /\ UNCHANGED <<inner, call, end, recorded, active, cancelled>>

(* observedClientStream: once.Do, which waits for a Do that is running     *)
Observe(c, g) ==
    /\ At(c, g, "observability")
    /\ once[c] # "running"
    /\ IF once[c] = "free" THEN EnterFinish(c, g) ELSE UNCHANGED once /\ Advance(c, g)
    /\ UNCHANGED <<inner, call, end, recorded, active, cancelled>>

\* An outcome taken from the error as it is.
OutcomeRaw(err) == "error"

(* io.EOF counts as success                                                *)
Outcome(err) == IF err = "EOF" THEN "OK" ELSE "error"

(* finish: one active stream less, the outcome in metrics, log and span    *)
Finish(c, g) ==
    /\ user[c][g].at = "finish"
    /\ StreamFinished(c, Outcome(user[c][g].err), g)
    /\ once' = [once EXCEPT ![c] = "done"]
    /\ Advance(c, g)
    /\ UNCHANGED <<inner, call, end, cancelled>>

-----------------------------------------------------------------------------
UserStep(c, g) == Cancel(c, g) \/ Observe(c, g) \/ Finish(c, g)

Next ==
    \E c \in Calls :
        \/ \E k \in Kinds : Begin(c, k)
        \/ \E s \in Status : UnaryReturns(c, s) \/ Terminate(c, s)
        \/ OpenFails(c) \/ OpenStream(c)
        \/ SendMsg(c) \/ RecvMsg(c)
        \/ \E g \in Users : UserStep(c, g)

(* The application receives until it is told the end (it may stop sending  *)
(* at any time), and goroutines are scheduled.  grpc-go also lets it       *)
(* cancel the context and receive no more: then no end is recorded, which  *)
(* this fairness leaves out.                                               *)
Fairness ==
    \A c \in Calls :
        /\ WF_vars(told[c] = {} /\ RecvMsg(c))
        /\ \A g \in Users : WF_vars(UserStep(c, g))

Spec == Init /\ [][Next]_vars /\ Fairness

-----------------------------------------------------------------------------
(* The gauge counts the streams that were begun and not recorded, however  *)
(* the ends that the two users see interleave: it never goes below zero or *)
(* counts a stream's end twice.                                            *)
OpenStreams == {c \in Calls : call[c].kind \notin {"none", "unary"} /\ recorded[c] = Unrecorded}
GaugeCountsOpenStreams == active = Cardinality(OpenStreams)

(* When a SendMsg or RecvMsg gives its error to the application, the       *)
(* outcome is recorded and the context released: the user that lost the    *)
(* race waits in once.Do for the one that won.                             *)
ReportedEndIsRecorded ==
    \A c \in Calls : told[c] # {} => recorded[c] # Unrecorded /\ c \in cancelled

(* What RecvMsg recorded is the stream's status.  A wrong outcome comes    *)
(* only from a SendMsg: its io.EOF, or a message that could not be sent    *)
(* after the stream had ended.                                             *)
RecvOutcomeIsStatus ==
    \A c \in Calls :
        recorded[c].by \in {"recv", "open", "unary"} => recorded[c].status = end[c]

(* A stream of responses that ended is recorded.                           *)
ResponseStreamRecorded ==
    \A c \in Calls :
        end[c] # "none" /\ call[c].kind \in {"server_stream", "bidi_stream"}
            ~> recorded[c] # Unrecorded

(* "records the terminal stream outcome once" (Interceptor.Stream): when   *)
(* RecvMsg has told the application how the stream ended, that outcome is  *)
(* recorded.                                                               *)
TerminalOutcomeRecorded ==
    \A c \in Calls :
        call[c].pc = "over" \/ "recv" \in told[c] => recorded[c].status = end[c]
=============================================================================
