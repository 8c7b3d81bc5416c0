------------------------------- MODULE MCJsSdk ------------------------------
EXTENDS JsSdk

CONSTANTS A, B, x, language, Plain, Spam

MCUsers == {A, B}
MCAttrs == {x, language}
MCSurveys == {Plain, Spam}

Commands ==
    {[op |-> "setUserId", user |-> u] : u \in MCUsers}
    \cup {[op |-> "setAttributes", attrs |-> {a}] : a \in MCAttrs}
    \cup {[op |-> "logout"], [op |-> "track", surveys |-> MCSurveys]}

Setup == [op |-> "setup"]

(* Any three commands, also after a user was set, with a request that may    *)
(* fail and one interaction.                                                 *)
Beginnings == {<<Setup>>, <<Setup, [op |-> "setUserId", user |-> A]>>}
Websites == {[commands |-> b \o <<c, d, e>>, fails |-> 1, acts |-> 1, reloads |-> 0] :
                b \in Beginnings, c, d, e \in Commands}

(* A user who comes back to a page, also with something that was not sent.   *)
Returns == {[commands |-> <<Setup, [op |-> "setUserId", user |-> A], c, Setup, d>>,
             fails |-> 0, acts |-> 0, reloads |-> 1] : c, d \in Commands}

MCScripts == Websites \cup Returns
=============================================================================
