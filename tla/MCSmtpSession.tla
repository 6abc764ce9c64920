--------------------------- MODULE MCSmtpSession ---------------------------
(***************************************************************************)
(* Small instances of SmtpSession: an MX port (25), a submission port with *)
(* STARTTLS (587) and one with implicit TLS (465).                         *)
(***************************************************************************)
EXTENDS SmtpSession, TLC

CONSTANTS alice, bob, null, local, ghost, foreign, post, mx, submit, optional, one, two

Mx       == [implicit |-> FALSE, starttls |-> TRUE, auth |-> FALSE, require |-> FALSE]
Submit   == [implicit |-> FALSE, starttls |-> TRUE, auth |-> TRUE, require |-> TRUE]
Submits  == [implicit |-> TRUE, starttls |-> FALSE, auth |-> TRUE, require |-> TRUE]
Optional == [implicit |-> TRUE, starttls |-> FALSE, auth |-> TRUE, require |-> FALSE]

Ports == mx :> Mx @@ submit :> Submit @@ optional :> Optional @@ one :> Mx @@ two :> Submits

PostmasterOf == mx :> ghost @@ submit :> Nobody @@ optional :> Nobody @@ one :> local
                   @@ two :> Nobody

AliceOwns == {<<alice, alice>>, <<alice, null>>}

\* Three clients that try everything, each alone; the one of the submission
\* port also sends ahead.  Two that only send mail, at the same time.
Simple == [cmd : {"EHLO", "DATA", "AUTH"}] \cup [cmd : {"MAIL"}, arg : {alice}]
             \cup [cmd : {"RCPT"}, arg : {local}]

Few == Commands \ [cmd : {"RCPT"}, arg : {ghost, post}]

AllSay == mx :> Commands @@ submit :> Few @@ optional :> Commands @@ one :> Simple @@ two :> Simple

SendAhead == mx :> 1 @@ submit :> 2 @@ optional :> 1 @@ one :> 1 @@ two :> 1

Meetings == {{mx}, {submit}, {optional}, {one, two}}
=============================================================================
