----------------------------- MODULE ResponseApi -----------------------------
(***************************************************************************)
(* The client API's response routes, as the response queue meets them: POST *)
(* creates a response, PUT merges an answer into one.  A call may also fail *)
(* on the way: before it reached the server, or after the server acted on   *)
(* it (the reply is lost).                                                  *)
(***************************************************************************)
EXTENDS Naturals, Sequences

CONSTANTS
    NumAnswers,    \* answers of the survey; the last one finishes it
    LostReplies    \* may the reply to a request that was served be lost?

ASSUME NumAnswersAssumption == NumAnswers \in Nat \ {0}
ASSUME LostRepliesAssumption == LostReplies \in BOOLEAN

VARIABLES
    responses,    \* Response rows by creation: their answers, display, liveness
    turnedDown,   \* answers refused for what they are, or with a closed survey
    refused,      \* history: answers refused for any reason
    unheard,      \* history: the client does not know the id of some response
    netFaults     \* failed or lost calls, and refusals, left to happen

apiVars == <<responses, turnedDown, refused, unheard, netFaults>>

Answers == 1..NumAnswers

(* A request names the response to update, or 0 to create one for a display *)
(* (0: none was recorded), and carries answers.                             *)
NoMessage == [response |-> 0, display |-> 0, answers |-> {}]

Messages == [response : Nat, display : Nat, answers : SUBSET Answers]

ApiTypeOK ==
    /\ responses \in Seq([answers : SUBSET Answers, display : Nat, live : BOOLEAN])
    /\ turnedDown \subseteq Answers
    /\ refused \subseteq Answers
    /\ unheard \in BOOLEAN
    /\ netFaults \in Nat

ApiInit(faults) ==
    /\ responses = <<>>
    /\ turnedDown = {}
    /\ refused = {}
    /\ unheard = FALSE
    /\ netFaults = faults

Delivered(a) == \E r \in DOMAIN responses : a \in responses[r].answers

(* PUT: the response is not there (404).                                    *)
Gone(m) == m.response # 0 /\ ~responses[m.response].live

(* PUT wants an unfinished response; POST a display that no response has    *)
(* used, since a deleted response takes its display with it.                *)
Acceptable(m) ==
    IF m.response = 0
    THEN m.display # 0 => \A r \in DOMAIN responses : responses[r].display # m.display
    ELSE /\ responses[m.response].live
         /\ NumAnswers \notin responses[m.response].answers

Stored(m) ==
    IF m.response = 0
    THEN Append(responses, [answers |-> m.answers, display |-> m.display, live |-> TRUE])
    ELSE [responses EXCEPT ![m.response].answers = @ \cup m.answers]

Accept(m) ==
    /\ Acceptable(m)
    /\ responses' = Stored(m)
    /\ UNCHANGED <<turnedDown, refused, unheard, netFaults>>

NotFound(m) ==
    /\ Gone(m)
    /\ UNCHANGED apiVars

(* A 4xx the client takes as final: the response is finished, the display   *)
(* is used up, or (charged to netFaults) the survey is closed or the data   *)
(* invalid.                                                                 *)
Refuse(m) ==
    /\ \/ /\ ~Acceptable(m)
          /\ ~Gone(m)
          /\ UNCHANGED <<turnedDown, netFaults>>
       \/ /\ netFaults > 0
          /\ netFaults' = netFaults - 1
          /\ turnedDown' = turnedDown \cup m.answers
    /\ refused' = refused \cup m.answers
    /\ UNCHANGED <<responses, unheard>>

(* A failed recaptcha check of a POST.  One of the senders drops the answer. *)
Suspect(m, dropped) ==
    /\ m.response = 0
    /\ netFaults > 0
    /\ netFaults' = netFaults - 1
    /\ IF dropped
       THEN /\ turnedDown' = turnedDown \cup m.answers
            /\ refused' = refused \cup m.answers
       ELSE UNCHANGED <<turnedDown, refused>>
    /\ UNCHANGED <<responses, unheard>>

(* No reply, or a 5xx or retryable 4xx.  With LostReplies the server may    *)
(* have served the request.                                                 *)
Fail(m, online) ==
    \/ /\ ~online
       /\ UNCHANGED apiVars
    \/ /\ netFaults > 0
       /\ netFaults' = netFaults - 1
       /\ UNCHANGED <<responses, turnedDown, refused, unheard>>
    \/ /\ LostReplies
       /\ netFaults > 0
       /\ Acceptable(m)
       /\ netFaults' = netFaults - 1
       /\ responses' = Stored(m)
       /\ unheard' = (unheard \/ m.response = 0)
       /\ UNCHANGED <<turnedDown, refused>>

(* The survey's owner deletes a response, with its display.                 *)
DeleteResponse(r) ==
    /\ responses[r].live
    /\ responses' = [responses EXCEPT ![r].live = FALSE]
    /\ UNCHANGED <<turnedDown, refused, unheard, netFaults>>
=============================================================================
