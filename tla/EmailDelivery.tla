--------------------------- MODULE EmailDelivery ---------------------------
(***************************************************************************)
(* Email delivery: getEmailService, withRetry and the two senders of       *)
(* src/services/emailService.ts.  A mail is submitted by a handler that    *)
(* does not wait for it, and is tried again when its attempt fails; the    *)
(* mail server may have taken an attempt whose answer is lost.  The length *)
(* of the backoff is left out, its order is not.                           *)
(***************************************************************************)
EXTENDS Naturals

CONSTANTS
    Mails,
    MaxAttempts     \* DEFAULT_RETRY_CONFIG.maxAttempts

VARIABLES
    channel,        \* the service getEmailService has built, for good
    mails

ASSUME MaxAttemptsAssumption == MaxAttempts \in Nat \ {0}

\* copies counts what the mail server has taken, up to two, which stands for more.
Mail == [status  : {"none", "sending", "waiting", "sent", "failed"},
         attempt : 0 .. MaxAttempts,
         copies  : 0 .. 2,
         lost    : BOOLEAN]

NoMail == [status |-> "none", attempt |-> 0, copies |-> 0, lost |-> FALSE]

MailTypeOK ==
    /\ channel \in {"smtp", "console"}
    /\ mails \in [Mails -> Mail]

MailInit ==
    /\ channel \in {"smtp", "console"}
    /\ mails = [m \in Mails |-> NoMail]

\* Without SMTP the mail is a line of the log, and nobody gets it.
Submit(m) ==
    /\ mails[m].status = "none"
    /\ mails' = [mails EXCEPT ![m] =
                    IF channel = "console" THEN [NoMail EXCEPT !.status = "sent"]
                    ELSE [NoMail EXCEPT !.status = "sending", !.attempt = 1]]

Sending(m) == mails[m].status = "sending"

OneMore(n) == IF n < 2 THEN n + 1 ELSE n

\* Mutant: the attempt fails whatever the answer is.
Accepted_Forgotten(m) ==
    /\ Sending(m)
    /\ mails' = [mails EXCEPT ![m].status = IF mails[m].attempt = MaxAttempts THEN "failed" ELSE "waiting",
                              ![m].copies = OneMore(@)]

Accepted(m) ==
    /\ Sending(m)
    /\ mails' = [mails EXCEPT ![m].status = "sent", ![m].copies = OneMore(@)]

\* Mutant: one attempt too many.
AfterFailure_OneMore(m) == IF mails[m].attempt > MaxAttempts THEN "failed" ELSE "waiting"

\* After the last attempt the error is thrown, and logged by the handler's catch.
AfterFailure(m) == IF mails[m].attempt = MaxAttempts THEN "failed" ELSE "waiting"

Refused(m) ==
    /\ Sending(m)
    /\ mails' = [mails EXCEPT ![m].status = AfterFailure(m)]

AnswerLost(m) ==
    /\ Sending(m)
    /\ mails' = [mails EXCEPT ![m].status = AfterFailure(m), ![m].copies = OneMore(@),
                              ![m].lost = TRUE]

\* Mutant: the attempts are not counted.
Retry_Uncounted(m) ==
    /\ mails[m].status = "waiting"
    /\ mails' = [mails EXCEPT ![m].status = "sending"]

\* The sleep is over.
Retry(m) ==
    /\ mails[m].status = "waiting"
    /\ mails' = [mails EXCEPT ![m].status = "sending", ![m].attempt = @ + 1]

Deliver(m) == Accepted(m) \/ Refused(m) \/ AnswerLost(m) \/ Retry(m)

Underway(m) == mails[m].status \in {"sending", "waiting"}

\* Retries do not send a mail twice unless an answer was lost, a mail that counts as
\* sent is with the mail server, and one is given up only when every attempt failed.
MailInv ==
    \A m \in Mails :
        /\ mails[m].copies = 2 => mails[m].lost
        /\ mails[m].status = "sent" /\ channel = "smtp" => mails[m].copies > 0
        /\ mails[m].status = "failed" => /\ mails[m].attempt = MaxAttempts
                                         /\ mails[m].copies > 0 => mails[m].lost
=============================================================================
