SPECIFICATION FairSpec
CONSTANTS
    u1 = u1  u2 = u2
    kTurn = kTurn  kOther = kOther  kOther2 = kOther2  kResume = kResume  kResume2 = kResume2
    t1 = t1  t2 = t2  t3 = t3  t4 = t4
    r1 = r1  r2 = r2  r3 = r3
    Users <- MCUsers
    Keys <- MCKeys
    Tasks <- MCTasks
    Resumes <- MCResumes
    KeyOf <- MCKeyOf
    UserOf <- MCUserOf
    ProcessLimit = 3
    UserLimit = 2
    NoUser = NoUser
INVARIANTS UserCountExact NoLeak
PROPERTY TasksGetTheirTurn
