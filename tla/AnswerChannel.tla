---------------------------- MODULE AnswerChannel ----------------------------
(***************************************************************************)
(* What a survey with offline support promises of the respondent's answers: *)
(* a channel that keeps what it is given and delivers it in order, through  *)
(* retries, refusals and reloads of the page, as long as the browser stores *)
(* every answer.  Answers may be sent again; what has arrived stays.        *)
(***************************************************************************)
EXTENDS Naturals

CONSTANT NumAnswers

VARIABLES
    given,    \* the answers 1..given have been given
    written,  \* the answers that the browser has stored at some time
    held,     \* the answers that the client still means to send
    arrived,  \* the answers that the server has
    refused,  \* the answers that the server has refused
    whole     \* so far every answer could be stored

vars == <<given, written, held, arrived, refused, whole>>

Answers == 1..NumAnswers

Init ==
    /\ given = 0
    /\ written = {} /\ held = {} /\ arrived = {} /\ refused = {}
    /\ whole = TRUE

Give ==
    /\ given < NumAnswers
    /\ given' = given + 1
    /\ held' = held \cup {given + 1}
    /\ UNCHANGED <<written, arrived, refused>>

(* The answers are stored in the order they were given.                      *)
Write ==
    /\ \E a \in 1..given : written' = 1..a
    /\ written \subseteq written'
    /\ UNCHANGED <<given, held, arrived, refused>>

(* Answers arrive with or after all before them that were not refused.       *)
Arrive ==
    /\ arrived' \in SUBSET Answers
    /\ arrived \subseteq arrived'
    /\ \A c \in arrived' : 1..(c - 1) \subseteq arrived' \cup refused
    /\ UNCHANGED refused

Refuse ==
    /\ refused' \in SUBSET Answers
    /\ refused \subseteq refused'
    /\ UNCHANGED arrived

(* The client lets go of nothing but what has arrived or was refused.        *)
Release ==
    /\ held' \in SUBSET held
    /\ held \ held' \subseteq arrived \cup refused

(* A request reaches the server, or does not, and the client tidies up.      *)
Serve ==
    /\ Arrive \/ Refuse
    /\ Release
    /\ UNCHANGED <<given, written>>

(* A reload goes on behind the last stored answer and forgets the others; it *)
(* still holds what is stored, but for some of what is settled.              *)
Reload ==
    /\ given' \in 0..NumAnswers
    /\ 1..given' = written
    /\ held' \in SUBSET written
    /\ written \ held' \subseteq arrived \cup refused
    /\ UNCHANGED <<written, arrived, refused>>

(* When an answer cannot be stored the promise ends.                         *)
Break ==
    /\ whole' = FALSE
    /\ given' \in 0..NumAnswers
    /\ written' \in SUBSET Answers
    /\ held' \in SUBSET Answers
    /\ arrived' \in SUBSET Answers /\ arrived \subseteq arrived'
    /\ refused' \in SUBSET Answers /\ refused \subseteq refused'

Next ==
    \/ /\ whole
       /\ UNCHANGED whole
       /\ Give \/ Write \/ Serve \/ Reload
    \/ Break

Spec == Init /\ [][Next]_vars
==============================================================================
