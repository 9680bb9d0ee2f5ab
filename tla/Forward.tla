------------------------------- MODULE Forward ------------------------------
(***************************************************************************)
(* A replica hands requests of its clients on to another replica (Forward  *)
(* and recv of src/node.go).  The answer that comes back names the command *)
(* only: recv finds the request it belongs to in the map forwards, whose   *)
(* key is the text of the command, and passes the answer to the request's   *)
(* channel, on which the HTTP goroutine waits (src/http.go).  The handler  *)
(* of the other replica is taken to answer in the end; nothing in the      *)
(* repository calls Forward yet.                                           *)
(***************************************************************************)
EXTENDS Integers, FiniteSets

CONSTANTS
    Req,        \* the requests forwarded
    CommandOf   \* CommandOf[r]: Command.String(), which leaves the counter out

VARIABLES
    forwards,  \* command -> the request that waits for its answer
    way,       \* how far each request is
    hand,      \* the answer recv holds
    box,       \* box[r]: answers in the channel of r, which has room for one
    served,    \* the requests whose HTTP goroutine has its answer
    replaced   \* history: requests whose entry in forwards was replaced

forwardVars == <<forwards, way, hand, box, served, replaced>>

ForwardInit == /\ forwards = <<>> /\ way = [r \in Req |-> "here"]
               /\ hand = {} /\ box = [r \in Req |-> 0]
               /\ served = {} /\ replaced = {}

\* mutant: an entry is not replaced
EnteredOnce(r) == [c \in DOMAIN forwards \cup {CommandOf[r]} |->
                     IF c = CommandOf[r] /\ c \notin DOMAIN forwards THEN r
                     ELSE forwards[c]]

\* The map forwards with the entry of r, under the lock.
Entered(r) == [c \in DOMAIN forwards \cup {CommandOf[r]} |->
                 IF c = CommandOf[r] THEN r ELSE forwards[c]]

ForwardReq(r) ==
    /\ way[r] = "here"
    /\ forwards' = Entered(r)
    /\ replaced' = replaced \cup {q \in Req \ served : /\ way[q] # "here"
                                                       /\ CommandOf[q] = CommandOf[r]}
    /\ way' = [way EXCEPT ![r] = "sent"]
    /\ UNCHANGED <<hand, box, served>>

\* recv of the other replica: the request gets a channel of its own, a goroutine
\* waits at it, and the request goes to MessageChan.
RecvRequest(r) ==
    /\ way[r] = "sent"
    /\ way' = [way EXCEPT ![r] = "there"]
    /\ UNCHANGED <<forwards, hand, box, served, replaced>>

\* A handler there answers; the goroutine sends the answer back, and overtakes
\* others.
ReplyBack(r) ==
    /\ way[r] = "there"
    /\ way' = [way EXCEPT ![r] = "back"]
    /\ UNCHANGED <<forwards, hand, box, served, replaced>>

\* recv takes the answer and looks its command up ...
RecvReply(r) ==
    /\ hand = {} /\ way[r] = "back"
    /\ hand' = {forwards[CommandOf[r]]}
    /\ way' = [way EXCEPT ![r] = "over"]
    /\ UNCHANGED <<forwards, box, served, replaced>>

\* ... and puts it in the channel: recv waits while the channel is full.
ReplyTo(r) ==
    /\ r \in hand /\ box[r] = 0
    /\ hand' = {}
    /\ box' = [box EXCEPT ![r] = 1]
    /\ UNCHANGED <<forwards, way, served, replaced>>

\* handleRoot: reply := <-req.c, once.
Serve(r) ==
    /\ box[r] > 0 /\ r \notin served
    /\ box' = [box EXCEPT ![r] = @ - 1]
    /\ served' = served \cup {r}
    /\ UNCHANGED <<forwards, way, hand, replaced>>

Answering == \E r \in Req : \/ RecvRequest(r) \/ ReplyBack(r) \/ RecvReply(r)
                            \/ ReplyTo(r) \/ Serve(r)

ForwardNext == Answering \/ \E r \in Req : ForwardReq(r)

\* The goroutines go on; nobody has to forward anything.
ForwardSpec == ForwardInit /\ [][ForwardNext]_forwardVars /\ WF_forwardVars(Answering)

-----------------------------------------------------------------------------
(* Properties *)

\* recv waits at a channel that nobody will read again.
Stuck == \E q \in hand : box[q] > 0 /\ q \in served

\* Three requests with the same command have been forwarded.
Thrice == \E c \in DOMAIN forwards :
            Cardinality({r \in Req : CommandOf[r] = c /\ way[r] # "here"}) > 2

\* A forwarded request gets an answer, with two exceptions: its command is
\* forwarded again before it has the answer, or the answers to a command that
\* was forwarded three times stop recv for good (Forward, recv, handleRoot).
ForwardsAnswered ==
    \A r \in Req : way[r] # "here"
                     ~> (r \in served \/ r \in replaced \/ (Stuck /\ Thrice))
=============================================================================
