---------------------------- MODULE HttpdService -----------------------------
(***************************************************************************)
(* What the web server promises its clients: a connection carries one      *)
(* request, gets at most one response, which may be cut, and ends; a       *)
(* response other than a rejection comes from the handler that was started *)
(* for it, and a connection that ended is never touched again.             *)
(***************************************************************************)
CONSTANT Conn
VARIABLES phase, answers
service == <<phase, answers>>

ServiceInit == /\ phase = [c \in Conn |-> "outside"]
               /\ answers = [c \in Conn |-> <<>>]

Enter(c) == /\ phase[c] = "outside"
            /\ phase' = [phase EXCEPT ![c] = "open"]
            /\ UNCHANGED answers

TurnAway(c) == /\ phase[c] = "outside"
               /\ phase' = [phase EXCEPT ![c] = "closed"]
               /\ UNCHANGED answers

StartHandler(c) == /\ phase[c] = "open"
                   /\ phase' = [phase EXCEPT ![c] = "handling"]
                   /\ UNCHANGED answers

Reject(c, text) == /\ phase[c] = "open"
                   /\ phase' = [phase EXCEPT ![c] = "closed"]
                   /\ answers' = [answers EXCEPT ![c] = <<text>>]

Respond(c, text) == /\ phase[c] = "handling"
                    /\ phase' = [phase EXCEPT ![c] = "closed"]
                    /\ answers' = [answers EXCEPT ![c] = <<text>>]

Drop(c) == /\ phase[c] \in {"open", "handling"}
           /\ phase' = [phase EXCEPT ![c] = "closed"]
           /\ UNCHANGED answers

\* The server ends, and with it every connection.
Stop == /\ phase' \in [Conn -> {"outside", "closed"}]
        /\ \A c \in Conn : phase[c] \in {"open", "handling", "closed"} => phase'[c] = "closed"
        /\ UNCHANGED answers

Serve == \E c \in Conn : \/ Enter(c) \/ TurnAway(c) \/ StartHandler(c) \/ Drop(c)
                         \/ \E text \in {"404", "413", "200", "cut"} : Reject(c, text)
                         \/ \E text \in {"200", "response", "cut"} : Respond(c, text)

ServiceNext == Stop \/ Serve

ServiceSpec == ServiceInit /\ [][ServiceNext]_service
=============================================================================
