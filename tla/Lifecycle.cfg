CONSTANTS
    Clients = {c1, c2}
    Mails = {m1}
    MaxAttempts = 3
SPECIFICATION FairSpec
INVARIANTS TypeOK ZeroIsClean NobodyCutOff MailInv
PROPERTIES NoLateSweep ReadyTold MailsRunOut ImplementsLife HealthFollows ShutdownEnds MailSettles
CHECK_DEADLOCK FALSE
