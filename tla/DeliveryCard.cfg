SPECIFICATION FairSpec
CONSTANTS
    topic1 = topic1  topic2 = topic2  stream = stream
    asked = asked  asked2 = asked2  report1 = report1  report2 = report2
    group = group  web = web  quiet = quiet  yes = yes  no = no
    reader = reader  phone = phone  laptop = laptop  desk = desk
    NoTurn = NoTurn
    Turns <- MCTurns
    Streaming <- MCStreaming
    ChatOf <- MCChatOf
    OriginOf <- MCOriginOf
    CardChats = {group}
    Clients <- MCClients
    On <- MCOn
    Texts <- MCTexts
    QueueMax = 2
    MaxAttempts = 2
    Environments <- OneCard
PROPERTY CardFinished
CHECK_DEADLOCK FALSE
