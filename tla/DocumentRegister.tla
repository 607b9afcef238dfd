-------------------------- MODULE DocumentRegister --------------------------
(***************************************************************************)
(* What the document API promises a client, without transactions: one      *)
(* current text and the history of the values it had.  A save takes effect *)
(* in a single step, and a save that names an ETag takes effect only on    *)
(* the very text it names.  DocumentStore implements this where statements *)
(* read one snapshot and a text is its own canonical value (see MC module).*)
(***************************************************************************)
EXTENDS Naturals, Sequences

CONSTANTS Requests, Texts, Canon, Request, AnyETag, None

VARIABLES
    current,   \* the document's text, None before it is created
    history,   \* the canonical values it was saved with, oldest first
    asked,     \* what each request asks for
    answer     \* "pending", "ok" or "rejected"

registerVars == <<current, history, asked, answer>>

Pending == [r \in Requests |-> "pending"]

RegisterInit ==
    /\ current \in Texts \cup {None}
    /\ history = <<>> \/ (current # None /\ history = <<Canon[current]>>)
    /\ asked = [r \in Requests |-> None]
    /\ answer = Pending

(* A request arrives; it may be answered at once without touching anything. *)
Arrive(r) ==
    /\ answer[r] = "pending" /\ asked[r] = None
    /\ \E q \in Request, a \in {"pending", "ok", "rejected"} :
          /\ a = "ok" => q.kind # "put"
          /\ asked' = [asked EXCEPT ![r] = q]
          /\ answer' = [answer EXCEPT ![r] = a]
    /\ UNCHANGED <<current, history>>

(* A document stored before revisions existed is its own first value. *)
Recorded == IF history = <<>> /\ current # None THEN <<Canon[current]>> ELSE history

Save(r) ==
    /\ answer[r] = "pending" /\ asked[r] # None /\ asked[r].kind = "put"
    /\ asked[r].ifMatch \in {None, current} \/ (asked[r].ifMatch = AnyETag /\ current # None)
    /\ current' = asked[r].text
    /\ LET value == Canon[asked[r].text] IN
         history' = IF Recorded # <<>> /\ Recorded[Len(Recorded)] = value
                    THEN Recorded ELSE Append(Recorded, value)
    /\ answer' = [answer EXCEPT ![r] = "ok"]
    /\ UNCHANGED asked

(* A save of a value the document already had may be acknowledged as is. *)
Acknowledge(r) ==
    /\ answer[r] = "pending" /\ asked[r] # None
    /\ asked[r].kind = "put" => \E i \in 1..Len(history) : history[i] = Canon[asked[r].text]
    /\ answer' = [answer EXCEPT ![r] = "ok"]
    /\ UNCHANGED <<current, history, asked>>

Reject(r) ==
    /\ answer[r] = "pending" /\ asked[r] # None
    /\ answer' = [answer EXCEPT ![r] = "rejected"]
    /\ UNCHANGED <<current, history, asked>>

RegisterNext ==
    \E r \in Requests : Arrive(r) \/ Save(r) \/ Acknowledge(r) \/ Reject(r)

RegisterSpec == RegisterInit /\ [][RegisterNext]_registerVars
=============================================================================
