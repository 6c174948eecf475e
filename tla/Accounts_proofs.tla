--------------------------- MODULE Accounts_proofs ---------------------------
(***************************************************************************)
(* Sign-ins against concurrent sign-ins, registrations and administrators, *)
(* for any number of them: what a request was told by a query stays true   *)
(* until it acts on it, because rows disappear only by an administrator.   *)
(***************************************************************************)
EXTENDS Accounts, TLAPS

-----------------------------------------------------------------------------
(* Types, and that exactly the sign-ins know a Telegram id.                *)

Asks ==
    \A r \in Requests :
        /\ req[r].pc = "validated" => req[r].tid = Nobody
        /\ req[r].pc \in {"insert", "refetch", "found"} => req[r].tid \in TelegramIds

LEMMA ProfilesAreStored == \A d \in Profiles \cup {Blank} : d \in StoredProfiles
  BY AccountsAssumption DEF StoredProfiles

LEMMA IdleType == Idle \in ReqRecords /\ \A pc \in Working \cup Ended : [Idle EXCEPT !.pc = pc] \in ReqRecords
  BY ProfilesAreStored DEF Idle, ReqRecords, Ended

LEMMA EndType ==
  ASSUME TypeOK, NEW r \in Requests, NEW pc \in Ended, End(r, pc)
  PROVE  req' \in [Requests -> ReqRecords] /\ req'[r] = [Idle EXCEPT !.pc = pc]
  BY IdleType DEF TypeOK, End

LEMMA GoToType ==
  ASSUME TypeOK, NEW r \in Requests, NEW pc \in Working, GoTo(r, pc)
  PROVE  req' \in [Requests -> ReqRecords] /\ req'[r] = [req[r] EXCEPT !.pc = pc]
  BY DEF TypeOK, GoTo, ReqRecords

\* A request that knows the account it signs in to.
Finds(r, a, d) == req' = [req EXCEPT ![r].pc = "found", ![r].account = a, ![r].seen = d]

LEMMA FindsKeeps ==
  ASSUME TypeOK, NEW r \in Requests, NEW a, NEW d, Finds(r, a, d)
  PROVE  /\ req'[r].pc = "found" /\ req'[r].account = a /\ req'[r].seen = d
         /\ req'[r].tid = req[r].tid /\ req'[r].data = req[r].data
<1>1. req[r] \in ReqRecords
  BY DEF TypeOK
<1>2. req' = [req EXCEPT ![r] = [req[r] EXCEPT !.pc = "found", !.account = a, !.seen = d]]
  BY <1>1 DEF TypeOK, ReqRecords, Finds
<1>3. req'[r] = [req[r] EXCEPT !.pc = "found", !.account = a, !.seen = d]
  BY <1>2 DEF TypeOK
<1> QED
  BY <1>1, <1>3 DEF ReqRecords

LEMMA FoundKeeps ==
  ASSUME TypeOK, NEW r \in Requests, NEW a, NEW d,
         req' = [req EXCEPT ![r].pc = "found", ![r].account = a, ![r].seen = d]
  PROVE  /\ req'[r].pc = "found" /\ req'[r].account = a /\ req'[r].seen = d
         /\ req'[r].tid = req[r].tid /\ req'[r].data = req[r].data
<1>1. Finds(r, a, d)
  BY DEF Finds
<1> QED
  BY <1>1, FindsKeeps

LEMMA FoundType ==
  ASSUME TypeOK, NEW r \in Requests, NEW a \in AccountIds, NEW d \in StoredProfiles,
         req' = [req EXCEPT ![r].pc = "found", ![r].account = a, ![r].seen = d]
  PROVE  /\ req' \in [Requests -> ReqRecords]
         /\ req'[r] = [req[r] EXCEPT !.pc = "found", !.account = a, !.seen = d]
<1>1. req[r] \in ReqRecords
  BY DEF TypeOK
<1>2. [req[r] EXCEPT !.pc = "found", !.account = a, !.seen = d] \in ReqRecords
  BY <1>1 DEF ReqRecords, Working
<1>3. req' = [req EXCEPT ![r] = [req[r] EXCEPT !.pc = "found", !.account = a, !.seen = d]]
  BY <1>1 DEF TypeOK, ReqRecords
<1> QED
  BY <1>2, <1>3 DEF TypeOK

LEMMA InsertType ==
  ASSUME TypeOK, NEW a, NEW e \in Emails \cup {Nobody}, NEW t \in TelegramIds \cup {Nobody},
         NEW d \in Profiles \cup {Blank}, InsertUser(a, e, t, d)
  PROVE  /\ email' \in [AccountIds -> Emails \cup {Nobody}]
         /\ telegram' \in [AccountIds -> TelegramIds \cup {Nobody}]
         /\ profile' \in [AccountIds -> StoredProfiles]
         /\ removed' \subseteq AccountIds
  BY ProfilesAreStored DEF TypeOK, InsertUser

LEMMA RequestType ==
  ASSUME TypeOK, Asks, NEW r \in Requests, RequestStep(r)
  PROVE  /\ email' \in [AccountIds -> Emails \cup {Nobody}]
         /\ telegram' \in [AccountIds -> TelegramIds \cup {Nobody}]
         /\ profile' \in [AccountIds -> StoredProfiles]
         /\ removed' \subseteq AccountIds
         /\ req' \in [Requests -> ReqRecords]
         /\ page' = page
<1> DEFINE Rows == /\ email' \in [AccountIds -> Emails \cup {Nobody}]
                   /\ telegram' \in [AccountIds -> TelegramIds \cup {Nobody}]
                   /\ profile' \in [AccountIds -> StoredProfiles]
                   /\ removed' \subseteq AccountIds
           Reqs == req' \in [Requests -> ReqRecords]
<1>0. req[r] \in ReqRecords /\ page' = page
  BY DEF TypeOK, RequestStep, StartRegistration, CreateRegistered, StartSignIn, InsertAccount,
         RefetchAccount, UpdateProfile
<1>1. UNCHANGED accountVars => Rows
  BY DEF accountVars, TypeOK
<1>2. ASSUME NEW e \in Emails, StartRegistration(r, e) PROVE Rows /\ Reqs
  <2>1. [Idle EXCEPT !.pc = "validated", !.email = e] \in ReqRecords
    BY ProfilesAreStored DEF Idle, ReqRecords, Working
  <2> QED
    BY <1>1, <1>2, <2>1 DEF StartRegistration, TypeOK
<1>3. CASE CreateRegistered(r)
  <2>1. Reqs
    BY <1>3, EndType DEF CreateRegistered, Ended
  <2>2. Rows
    BY <1>0, <1>1, <1>3, InsertType DEF CreateRegistered, ReqRecords
  <2> QED
    BY <2>1, <2>2, <1>0
<1>4. ASSUME NEW t \in TelegramIds, NEW d \in Profiles, StartSignIn(r, t, d) PROVE Rows /\ Reqs
  <2>1. [Idle EXCEPT !.pc = "insert", !.tid = t, !.data = d] \in ReqRecords
    BY ProfilesAreStored DEF Idle, ReqRecords, Working
  <2>2. \A a \in WithTelegram(t) :
          [Idle EXCEPT !.pc = "found", !.tid = t, !.data = d, !.account = a, !.seen = profile[a]]
             \in ReqRecords
    BY DEF Idle, ReqRecords, Working, WithTelegram, Existing, TypeOK
  <2> QED
    BY <1>1, <1>4, <2>1, <2>2 DEF StartSignIn, TypeOK
<1>5. CASE InsertAccount(r)
  <2>1. req[r].pc = "insert" /\ req[r].tid \in TelegramIds
    BY <1>5 DEF InsertAccount, Asks
  <2>2. ASSUME NEW a \in AccountIds,
               InsertUser(a, ReservedEmail[req[r].tid], req[r].tid, req[r].data),
               req' = [req EXCEPT ![r].pc = "found", ![r].account = a, ![r].seen = req[r].data]
        PROVE  Rows /\ Reqs
    <3>1. ReservedEmail[req[r].tid] \in Emails /\ req[r].data \in Profiles \cup {Blank}
      BY <1>0, <2>1, AccountsAssumption DEF ReqRecords
    <3> QED
      BY <2>1, <2>2, <3>1, InsertType, FoundType, ProfilesAreStored
  <2>3. ASSUME GoTo(r, "refetch"), UNCHANGED accountVars PROVE Rows /\ Reqs
    BY <1>1, <2>3, GoToType DEF Working
  <2> QED
    BY <1>5, <2>2, <2>3 DEF InsertAccount
<1>6. CASE RefetchAccount(r)
  <2>1. ASSUME NEW a \in WithTelegram(req[r].tid),
               req' = [req EXCEPT ![r].pc = "found", ![r].account = a, ![r].seen = profile[a]]
        PROVE  Reqs
    <3>1. a \in AccountIds /\ profile[a] \in StoredProfiles
      BY DEF WithTelegram, Existing, TypeOK
    <3> QED
      BY <2>1, <3>1, FoundType
  <2>2. End(r, "failed") => Reqs
    BY EndType DEF Ended
  <2>3. Reqs
    BY <1>6, <2>1, <2>2 DEF RefetchAccount
  <2> QED
    BY <1>1, <1>6, <2>3 DEF RefetchAccount
<1>7. CASE UpdateProfile(r)
  <2>1. \A pc \in Ended : End(r, pc) => Reqs
    BY EndType
  <2>2. Reqs
    BY <1>7, <2>1 DEF UpdateProfile, Ended
  <2> DEFINE a == req[r].account
             d == [f \in Fields |-> IF f \in Changed(r) THEN req[r].data[f] ELSE profile[a][f]]
  <2>3. req[r].data \in StoredProfiles
    BY <1>0, ProfilesAreStored DEF ReqRecords
  <2>4. CASE profile' = [profile EXCEPT ![a] = d] /\ UNCHANGED <<email, telegram, removed>>
    <3>1. ASSUME a \in AccountIds PROVE d \in StoredProfiles
      <4> DEFINE Values == {x[f] : x \in Profiles \cup {Blank}, f \in Fields}
      <4>1. StoredProfiles = [Fields -> Values]
        BY DEF StoredProfiles
      <4> HIDE DEF Values
      <4>2. profile[a] \in [Fields -> Values] /\ req[r].data \in [Fields -> Values]
        BY <2>3, <3>1, <4>1 DEF TypeOK
      <4> QED
        BY <4>1, <4>2
    <3> HIDE DEF d
    <3>2. profile' \in [AccountIds -> StoredProfiles]
      <4>1. CASE a \in AccountIds
        BY <2>4, <3>1, <4>1 DEF TypeOK
      <4>2. CASE a \notin AccountIds
        BY <2>4, <4>2 DEF TypeOK
      <4> QED
        BY <4>1, <4>2
    <3> QED
      BY <1>0, <2>2, <2>4, <3>2 DEF TypeOK
  <2>5. UNCHANGED accountVars \/ (profile' = [profile EXCEPT ![a] = d]
                                  /\ UNCHANGED <<email, telegram, removed>>)
    BY <1>7 DEF UpdateProfile
  <2> QED
    BY <1>0, <1>1, <2>2, <2>4, <2>5
<1> QED
  BY <1>0, <1>2, <1>3, <1>4, <1>5, <1>6, <1>7 DEF RequestStep

\* What a request asks for does not change while it works.
LEMMA RequestAsks ==
  ASSUME TypeOK, Asks, NEW r \in Requests, RequestStep(r)
  PROVE  Asks'
<1>1. \A q \in Requests \ {r} : req'[q] = req[q]
  BY DEF TypeOK, RequestStep, StartRegistration, CreateRegistered, StartSignIn, InsertAccount,
         RefetchAccount, UpdateProfile, End, GoTo
<1>2. /\ req'[r].pc = "validated" => req'[r].tid = Nobody
      /\ req'[r].pc \in {"insert", "refetch", "found"} => req'[r].tid \in TelegramIds
  <2>1. req[r] \in ReqRecords
    BY DEF TypeOK
  <2>2. ASSUME NEW pc \in Ended, End(r, pc) PROVE req'[r].pc \notin Working
    BY <2>2, EndType DEF Idle, Working, Ended
  <2>3. ASSUME NEW e \in Emails, StartRegistration(r, e) PROVE req'[r].tid = Nobody /\ req'[r].pc = "validated"
    <3>1. req'[r] = [Idle EXCEPT !.pc = "validated", !.email = e]
      BY <2>3 DEF StartRegistration, TypeOK
    <3> QED
      BY <3>1 DEF Idle
  <2>7. ASSUME NEW t \in TelegramIds, NEW d \in Profiles, StartSignIn(r, t, d)
        PROVE  req'[r].tid = t /\ req'[r].pc # "validated"
    <3>1. \/ req'[r] = [Idle EXCEPT !.pc = "insert", !.tid = t, !.data = d]
          \/ \E a \in WithTelegram(t) :
                req'[r] = [Idle EXCEPT !.pc = "found", !.tid = t, !.data = d,
                                       !.account = a, !.seen = profile[a]]
      BY <2>7 DEF StartSignIn, TypeOK
    <3> QED
      BY <3>1 DEF Idle
  <2>4. CASE CreateRegistered(r) \/ UpdateProfile(r)
    BY <2>2, <2>4 DEF CreateRegistered, UpdateProfile, Ended, Working
  <2>5. CASE InsertAccount(r)
    <3>1. req[r].tid \in TelegramIds
      BY <2>5 DEF InsertAccount, Asks
    <3>2. CASE GoTo(r, "refetch")
      BY <2>1, <3>1, <3>2, GoToType DEF ReqRecords, Working
    <3>3. CASE ~GoTo(r, "refetch")
      <4>1. PICK a : req' = [req EXCEPT ![r].pc = "found", ![r].account = a,
                                        ![r].seen = req[r].data]
        BY <2>5, <3>3 DEF InsertAccount
      <4> QED
        BY <3>1, <4>1, FoundKeeps
    <3> QED
      BY <3>2, <3>3
  <2>6. CASE RefetchAccount(r)
    <3>1. CASE End(r, "failed")
      BY <2>2, <3>1 DEF Ended, Working
    <3>2. CASE ~End(r, "failed")
      <4>1. req[r].tid \in TelegramIds
        BY <2>6 DEF RefetchAccount, Asks
      <4>2. PICK a : req' = [req EXCEPT ![r].pc = "found", ![r].account = a,
                                        ![r].seen = profile[a]]
        BY <2>6, <3>2 DEF RefetchAccount
      <4> QED
        BY <4>1, <4>2, FoundKeeps
    <3> QED
      BY <3>1, <3>2
  <2> QED
    BY <2>3, <2>4, <2>5, <2>6, <2>7 DEF RequestStep
<1> QED
  BY <1>1, <1>2 DEF Asks

LEMMA WitnessType ==
  ASSUME TypeOK, Witness PROVE witnessed' \in [Requests -> SUBSET Fields]
<1>1. ASSUME NEW r \in Requests, NEW t, NEW d PROVE StoredNow(r, t, d) \subseteq Fields
  BY DEF StoredNow
<1>2. \A r \in Requests : witnessed[r] \subseteq Fields
  BY DEF TypeOK
<1> DEFINE new(r) ==
        IF req'[r].pc \in Working
        THEN StoredNow(r, req'[r].tid, req'[r].data)
             \cup IF req[r].pc \in Working THEN witnessed[r] ELSE {}
        ELSE IF req[r].pc \in Working /\ req'[r].pc = "answered"
        THEN witnessed[r] \cup StoredNow(r, req[r].tid, req[r].data)
        ELSE {}
<1>3. \A r \in Requests : new(r) \subseteq Fields
  BY <1>1, <1>2
<1>4. witnessed' = [r \in Requests |-> new(r)]
  BY DEF Witness
<1> HIDE DEF new
<1> QED
  BY <1>3, <1>4

Pages == [account : AccountIds \cup {Nobody}, profile : StoredProfiles, posted : BOOLEAN]

LEMMA AdministratorType ==
  ASSUME TypeOK, Interference \/ Quiet
  PROVE  /\ email' \in [AccountIds -> Emails \cup {Nobody}]
         /\ telegram' \in [AccountIds -> TelegramIds \cup {Nobody}]
         /\ profile' \in [AccountIds -> StoredProfiles]
         /\ removed' \subseteq AccountIds
         /\ req' = req
         /\ page' \in Pages
<1>1. Blank \in StoredProfiles
  BY ProfilesAreStored
<1>2. CASE SavePage
  BY <1>1, <1>2 DEF SavePage, TypeOK, NoPage, Existing, Pages
<1>3. ASSUME NEW a \in AccountIds, DeleteUser(a) \/ OpenPage(a) PROVE
         /\ email' \in [AccountIds -> Emails \cup {Nobody}]
         /\ telegram' \in [AccountIds -> TelegramIds \cup {Nobody}]
         /\ profile' \in [AccountIds -> StoredProfiles]
         /\ removed' \subseteq AccountIds
         /\ req' = req
         /\ page' \in Pages
  <2>1. CASE DeleteUser(a)
    BY <1>1, <2>1 DEF DeleteUser, TypeOK, Pages
  <2>2. CASE OpenPage(a)
    BY <2>2 DEF OpenPage, TypeOK, accountVars, Pages
  <2> QED
    BY <1>3, <2>1, <2>2
<1>4. ASSUME NEW e \in Emails, AddUser(e) PROVE
         /\ email' \in [AccountIds -> Emails \cup {Nobody}]
         /\ telegram' \in [AccountIds -> TelegramIds \cup {Nobody}]
         /\ profile' \in [AccountIds -> StoredProfiles]
         /\ removed' \subseteq AccountIds
         /\ req' = req
         /\ page' \in Pages
  BY <1>1, <1>4, InsertType DEF AddUser, TypeOK, Pages
<1>5. ASSUME PostPage PROVE page' \in Pages /\ UNCHANGED <<accountVars, req>>
  <2> DEFINE a == page.account
             d == [f \in Fields |-> IF f \in FormFields THEN page.profile[f] ELSE profile[a][f]]
             Values == {x[f] : x \in Profiles \cup {Blank}, f \in Fields}
  <2>1. a \in AccountIds /\ page' = [account |-> a, profile |-> d, posted |-> TRUE]
    BY <1>5 DEF PostPage, Existing
  <2>2. StoredProfiles = [Fields -> Values]
    BY DEF StoredProfiles
  <2> HIDE DEF Values
  <2>3. page.profile \in [Fields -> Values] /\ profile[a] \in [Fields -> Values]
    BY <2>1, <2>2 DEF TypeOK
  <2>4. d \in StoredProfiles
    BY <2>2, <2>3
  <2> QED
    BY <1>5, <2>1, <2>4 DEF PostPage, Pages
<1> QED
  BY <1>2, <1>3, <1>4, <1>5 DEF Interference, Quiet, TypeOK, accountVars

LEMMA TypeInductive == TypeOK /\ Asks /\ [Next]_vars => TypeOK' /\ Asks'
<1> SUFFICES ASSUME TypeOK, Asks, [Next]_vars PROVE TypeOK' /\ Asks'
  OBVIOUS
<1>1. CASE UNCHANGED vars
  BY <1>1 DEF vars, TypeOK, Asks
<1>2. CASE RequestRuns
  <2>1. disturbed' \subseteq Requests /\ witnessed' \in [Requests -> SUBSET Fields]
    BY <1>2, WitnessType DEF RequestRuns, TypeOK
  <2> QED
    BY <1>2, <2>1, RequestType, RequestAsks DEF RequestRuns, TypeOK
<1>3. CASE AdministratorInterferes \/ AdministratorWorks
  <2>1. disturbed' \subseteq Requests /\ witnessed' \in [Requests -> SUBSET Fields]
    BY <1>3, WitnessType
    DEF AdministratorInterferes, AdministratorWorks, StillWorking, TypeOK
  <2> QED
    BY <1>3, <2>1, AdministratorType
    DEF AdministratorInterferes, AdministratorWorks, TypeOK, Asks, Pages
<1> QED
  BY <1>1, <1>2, <1>3 DEF Next

LEMMA TypeInit == Init => TypeOK /\ Asks
  BY IdleType, ProfilesAreStored DEF Init, TypeOK, Asks, Idle, NoPage

\* The types of Accounts, whatever requests and administrators do.
THEOREM AccountsTyped == Spec => []TypeOK
  BY TypeInit, TypeInductive, PTL DEF Spec

-----------------------------------------------------------------------------
(* What an undisturbed request was told is still true.                     *)

\* Why an insert was refused.
Refused(r) ==
    \/ WithTelegram(req[r].tid) # {}
    \/ \E a \in WithEmail(ReservedEmail[req[r].tid]) : telegram[a] # req[r].tid

StillTrue(r) ==
    /\ req[r].pc = "found" =>
          \A f \in Fields : req[r].seen[f] = req[r].data[f] => f \in witnessed[r]
    /\ r \notin disturbed =>
          /\ req[r].pc = "found" => /\ req[r].account \in Existing
                                    /\ telegram[req[r].account] = req[r].tid
          /\ req[r].pc = "refetch" => Refused(r)

Inv == TypeOK /\ Asks /\ \A r \in Requests : StillTrue(r)

RowsKept == \A a \in Existing : email'[a] = email[a] /\ telegram'[a] = telegram[a]

LEMMA InsertKeepsRows ==
  ASSUME TypeOK, NEW a, NEW e, NEW t, NEW d, InsertUser(a, e, t, d) PROVE RowsKept
  BY DEF InsertUser, Unused, RowsKept, Existing, TypeOK

LEMMA RequestKeepsRows ==
  ASSUME TypeOK, NEW r \in Requests, RequestStep(r) PROVE RowsKept
<1>1. UNCHANGED <<email, telegram>> => RowsKept
  BY DEF RowsKept
<1>2. CASE CreateRegistered(r)
  BY <1>1, <1>2, InsertKeepsRows DEF CreateRegistered, accountVars
<1>3. CASE InsertAccount(r)
  BY <1>1, <1>3, InsertKeepsRows DEF InsertAccount, accountVars
<1>4. CASE ~CreateRegistered(r) /\ ~InsertAccount(r)
  <2>1. UNCHANGED <<email, telegram>>
    BY <1>4 DEF RequestStep, StartRegistration, StartSignIn, RefetchAccount, UpdateProfile,
                accountVars
  <2> QED
    BY <1>1, <2>1
<1> QED
  BY <1>2, <1>3, <1>4

LEMMA QuietKeepsRows == ASSUME TypeOK, Quiet PROVE RowsKept
<1>1. ASSUME NEW a \in AccountIds, OpenPage(a) PROVE RowsKept
  BY <1>1 DEF OpenPage, RowsKept, accountVars
<1>2. ASSUME NEW e \in Emails, AddUser(e) PROVE RowsKept
  BY <1>2, InsertKeepsRows DEF AddUser
<1>3. CASE PostPage
  BY <1>3 DEF PostPage, RowsKept, accountVars
<1> QED
  BY <1>1, <1>2, <1>3 DEF Quiet

\* A request that works on remembers what was stored.
LEMMA WitnessGrows ==
  ASSUME Witness, NEW r \in Requests, req'[r].pc \in Working
  PROVE  /\ StoredNow(r, req'[r].tid, req'[r].data) \subseteq witnessed'[r]
         /\ req[r].pc \in Working => witnessed[r] \subseteq witnessed'[r]
  BY DEF Witness

\* A request that waits keeps what it knows while nobody deletes rows.
LEMMA WaitingStays ==
  ASSUME Inv, TypeOK', Witness, RowsKept, NEW r \in Requests, req'[r] = req[r],
         r \in disturbed => req[r].pc \notin Working \/ r \in disturbed'
  PROVE  StillTrue(r)'
<1>1. Existing \subseteq Existing'
  BY DEF RowsKept, Existing, Inv, TypeOK
<1>2. req[r].pc = "found" =>
        \A f \in Fields : req'[r].seen[f] = req'[r].data[f] => f \in witnessed'[r]
  BY WitnessGrows DEF Inv, StillTrue, Working
<1>3. ASSUME r \notin disturbed', req[r].pc = "found"
      PROVE  req'[r].account \in Existing' /\ telegram'[req'[r].account] = req'[r].tid
  BY <1>1, <1>3 DEF Inv, StillTrue, RowsKept, Working
<1>4. ASSUME r \notin disturbed', req[r].pc = "refetch" PROVE Refused(r)'
  <2>1. Refused(r)
    BY <1>4 DEF Inv, StillTrue, Working
  <2>2. CASE WithTelegram(req[r].tid) # {}
    BY <1>1, <2>2 DEF WithTelegram, RowsKept, Refused
  <2>3. ASSUME NEW a \in WithEmail(ReservedEmail[req[r].tid]), telegram[a] # req[r].tid
        PROVE  Refused(r)'
    BY <1>1, <2>3 DEF WithEmail, RowsKept, Refused
  <2> QED
    BY <2>1, <2>2, <2>3 DEF Refused
<1> QED
  BY <1>2, <1>3, <1>4 DEF StillTrue

\* What a request learns is true when it learns it.
LEMMA LearntIsTrue ==
  ASSUME Inv, Witness, NEW r \in Requests, RequestStep(r)
  PROVE  StillTrue(r)'
<1>1. TypeOK /\ Asks /\ req[r] \in ReqRecords
  BY DEF Inv, TypeOK
<1>2. ASSUME NEW pc \in Ended, End(r, pc) PROVE req'[r].pc = pc
  BY <1>1, <1>2, EndType DEF Idle, Ended
<1>3. ASSUME req'[r].pc \notin {"found", "refetch"} PROVE StillTrue(r)'
  BY <1>3 DEF StillTrue
<1>4. ASSUME NEW e \in Emails, StartRegistration(r, e) PROVE StillTrue(r)'
  <2>1. req'[r] = [Idle EXCEPT !.pc = "validated", !.email = e]
    BY <1>1, <1>4 DEF StartRegistration, TypeOK
  <2> QED
    BY <1>3, <2>1 DEF Idle
<1>5. CASE CreateRegistered(r) \/ UpdateProfile(r)
  BY <1>2, <1>3, <1>5 DEF CreateRegistered, UpdateProfile, Ended
<1>6. ASSUME NEW t \in TelegramIds, NEW a \in AccountIds,
             req'[r].pc = "found", req'[r].account = a, req'[r].tid = t,
             a \in Existing', telegram'[a] = t, profile'[a] = req'[r].seen
      PROVE  StillTrue(r)'
  <2>1. \A f \in Fields : req'[r].seen[f] = req'[r].data[f] => f \in StoredNow(r, t, req'[r].data)
    BY <1>6, AccountsAssumption DEF StoredNow
  <2>2. StoredNow(r, t, req'[r].data) \subseteq witnessed'[r]
    BY <1>6, WitnessGrows DEF Working
  <2> QED
    BY <1>6, <2>1, <2>2 DEF StillTrue
<1>7. ASSUME NEW t \in TelegramIds, NEW d \in Profiles, StartSignIn(r, t, d)
      PROVE  StillTrue(r)'
  <2>1. CASE req'[r] = [Idle EXCEPT !.pc = "insert", !.tid = t, !.data = d]
    BY <1>3, <2>1 DEF Idle
  <2>2. ASSUME NEW a \in WithTelegram(t),
               req'[r] = [Idle EXCEPT !.pc = "found", !.tid = t, !.data = d,
                                      !.account = a, !.seen = profile[a]]
        PROVE  StillTrue(r)'
    <3>1. /\ req'[r].pc = "found" /\ req'[r].account = a /\ req'[r].tid = t
          /\ req'[r].seen = profile[a]
      BY <2>2 DEF Idle
    <3>2. a \in AccountIds /\ a \in Existing' /\ telegram'[a] = t /\ profile'[a] = profile[a]
      BY <1>7 DEF StartSignIn, accountVars, WithTelegram, Existing
    <3> QED
      BY <1>6, <3>1, <3>2
  <2>3. \/ req'[r] = [Idle EXCEPT !.pc = "insert", !.tid = t, !.data = d]
        \/ \E a \in WithTelegram(t) :
              req'[r] = [Idle EXCEPT !.pc = "found", !.tid = t, !.data = d,
                                     !.account = a, !.seen = profile[a]]
    BY <1>1, <1>7 DEF StartSignIn, TypeOK
  <2> QED
    BY <2>1, <2>2, <2>3
<1>8. CASE InsertAccount(r)
  <2>1. req[r].tid \in TelegramIds
    BY <1>1, <1>8 DEF InsertAccount, Asks
  <2>2. ASSUME NEW a \in AccountIds,
               InsertUser(a, ReservedEmail[req[r].tid], req[r].tid, req[r].data),
               req' = [req EXCEPT ![r].pc = "found", ![r].account = a, ![r].seen = req[r].data]
        PROVE  StillTrue(r)'
    <3>1. /\ email'[a] = ReservedEmail[req[r].tid] /\ telegram'[a] = req[r].tid
          /\ profile'[a] = req[r].data
      BY <1>1, <2>2 DEF InsertUser, TypeOK
    <3>2. a \in Existing'
      BY <2>1, <3>1, AccountsAssumption DEF Existing
    <3>3. Finds(r, a, req[r].data)
      BY <2>2 DEF Finds
    <3>4. /\ req'[r].pc = "found" /\ req'[r].account = a /\ req'[r].seen = req[r].data
          /\ req'[r].tid = req[r].tid
      BY <1>1, <3>3, FindsKeeps
    <3> QED
      BY <1>6, <2>1, <3>1, <3>2, <3>4
  <2>3. ASSUME WithEmail(ReservedEmail[req[r].tid]) # {} \/ WithTelegram(req[r].tid) # {},
               GoTo(r, "refetch"), UNCHANGED accountVars
        PROVE  StillTrue(r)'
    <3>1. req'[r].pc = "refetch" /\ req'[r].tid = req[r].tid
      BY <1>1, <2>3, GoToType DEF Working, ReqRecords
    <3>2. Refused(r)
      BY <2>3 DEF Refused, WithEmail, WithTelegram
    <3>3. UNCHANGED <<email, telegram>>
      BY <2>3 DEF accountVars
    <3>4. Refused(r)'
      BY <3>1, <3>2, <3>3 DEF Refused, WithEmail, WithTelegram, Existing
    <3> QED
      BY <3>1, <3>4 DEF StillTrue
  <2> QED
    BY <1>8, <2>2, <2>3 DEF InsertAccount
<1>9. CASE RefetchAccount(r)
  <2>1. CASE End(r, "failed")
    BY <1>2, <1>3, <2>1 DEF Ended
  <2>2. ASSUME NEW a \in WithTelegram(req[r].tid),
               req' = [req EXCEPT ![r].pc = "found", ![r].account = a, ![r].seen = profile[a]]
        PROVE  StillTrue(r)'
    <3>3. Finds(r, a, profile[a])
      BY <2>2 DEF Finds
    <3>4. req[r].tid \in TelegramIds
      BY <1>1, <1>9 DEF RefetchAccount, Asks
    <3>1. /\ req'[r].pc = "found" /\ req'[r].account = a /\ req'[r].seen = profile[a]
          /\ req'[r].tid = req[r].tid /\ req[r].tid \in TelegramIds
      BY <1>1, <3>3, <3>4, FindsKeeps
    <3>2. /\ a \in AccountIds /\ a \in Existing' /\ telegram'[a] = req[r].tid
          /\ profile'[a] = profile[a]
      BY <1>9 DEF RefetchAccount, accountVars, WithTelegram, Existing
    <3> QED
      BY <1>6, <3>1, <3>2
  <2> QED
    BY <1>9, <2>1, <2>2 DEF RefetchAccount
<1> QED
  BY <1>4, <1>5, <1>7, <1>8, <1>9 DEF RequestStep

LEMMA OthersWait ==
  ASSUME TypeOK, NEW r \in Requests, RequestStep(r), NEW q \in Requests, q # r
  PROVE  req'[q] = req[q]
  BY DEF TypeOK, RequestStep, StartRegistration, CreateRegistered, StartSignIn, InsertAccount,
         RefetchAccount, UpdateProfile, End, GoTo

LEMMA InvInductive == Inv /\ [Next]_vars => Inv'
<1> SUFFICES ASSUME Inv, [Next]_vars PROVE Inv'
  OBVIOUS
<1>1. TypeOK' /\ Asks'
  BY TypeInductive DEF Inv
<1>2. ASSUME NEW q \in Requests PROVE StillTrue(q)'
  <2>1. CASE UNCHANGED vars
    <3>1. StillTrue(q)
      BY DEF Inv
    <3> QED
      BY <2>1, <3>1 DEF vars, StillTrue, Refused, WithEmail, WithTelegram, Existing
  <2>2. CASE RequestRuns
    <3>1. PICK r \in Requests : RequestStep(r)
      BY <2>2 DEF RequestRuns
    <3>2. CASE q = r
      BY <2>2, <3>1, <3>2, LearntIsTrue DEF RequestRuns
    <3>3. CASE q # r
      <4>1. RowsKept /\ req'[q] = req[q]
        BY <3>1, <3>3, RequestKeepsRows, OthersWait DEF Inv
      <4>2. q \in disturbed => req[q].pc \notin Working \/ q \in disturbed'
        BY <2>2, <4>1 DEF RequestRuns, StillWorking
      <4> QED
        BY <1>1, <2>2, <4>1, <4>2, WaitingStays DEF RequestRuns
    <3> QED
      BY <3>2, <3>3
  <2>3. CASE AdministratorInterferes
    <3>1. req' = req /\ disturbed' = StillWorking
      BY <2>3, AdministratorType DEF AdministratorInterferes, Inv
    <3>2. req[q].pc = "found" =>
            \A f \in Fields : req'[q].seen[f] = req'[q].data[f] => f \in witnessed'[q]
      BY <2>3, <3>1, WitnessGrows DEF AdministratorInterferes, Inv, StillTrue, Working
    <3>3. req[q].pc \in {"found", "refetch"} => q \in disturbed'
      BY <3>1 DEF StillWorking, Working
    <3> QED
      BY <3>1, <3>2, <3>3 DEF StillTrue
  <2>4. CASE AdministratorWorks
    <3>1. req' = req /\ disturbed' = disturbed /\ RowsKept
      BY <2>4, AdministratorType, QuietKeepsRows DEF AdministratorWorks, Inv
    <3> QED
      BY <1>1, <2>4, <3>1, WaitingStays DEF AdministratorWorks
  <2> QED
    BY <2>1, <2>2, <2>3, <2>4 DEF Next
<1> QED
  BY <1>1, <1>2 DEF Inv

LEMMA InvInit == Init => Inv
  BY TypeInit DEF Inv, Init, StillTrue, Idle

-----------------------------------------------------------------------------
\* Only a request's own step ends it.
LEMMA EndsByItself ==
  ASSUME Inv, Next, NEW r \in Requests, req[r].pc \in Working, req'[r].pc \in {"answered", "failed"}
  PROVE  RequestRuns /\ RequestStep(r)
<1>1. req' # req
  BY DEF Working
<1>2. RequestRuns
  BY <1>1, AdministratorType DEF Next, AdministratorInterferes, AdministratorWorks, Inv
<1>3. PICK q \in Requests : RequestStep(q)
  BY <1>2 DEF RequestRuns
<1>4. q = r
  BY <1>3, OthersWait DEF Working, Inv
<1> QED
  BY <1>2, <1>3, <1>4

LEMMA FailureExplained ==
  ASSUME Inv, Next, NEW r \in Requests, req[r].pc \in Working, req'[r].pc = "failed",
         req[r].tid # Nobody, r \notin disturbed
  PROVE  \E a \in WithEmail(ReservedEmail[req[r].tid]) : telegram[a] # req[r].tid
<1>1. RequestStep(r) /\ TypeOK /\ Asks
  BY EndsByItself DEF Inv
<1>2. ~CreateRegistered(r)
  BY <1>1 DEF CreateRegistered, Asks
<1>3. ~UpdateProfile(r)
  <2>1. SUFFICES ASSUME UpdateProfile(r) PROVE FALSE
    OBVIOUS
  <2>2. req[r].account \in Existing
    BY <2>1 DEF UpdateProfile, Inv, StillTrue
  <2>3. End(r, "answered")
    BY <2>1, <2>2 DEF UpdateProfile
  <2> QED
    BY <1>1, <2>3, EndType DEF Ended, Idle
<1>4. ~InsertAccount(r)
  <2>1. SUFFICES ASSUME InsertAccount(r) PROVE FALSE
    OBVIOUS
  <2>2. CASE GoTo(r, "refetch")
    BY <1>1, <2>2, GoToType DEF Working, ReqRecords, TypeOK
  <2>3. CASE ~GoTo(r, "refetch")
    <3>1. PICK a : req' = [req EXCEPT ![r].pc = "found", ![r].account = a,
                                      ![r].seen = req[r].data]
      BY <2>1, <2>3 DEF InsertAccount
    <3> QED
      BY <1>1, <3>1, FoundKeeps
  <2> QED
    BY <2>2, <2>3
<1>5. (\A e \in Emails : ~StartRegistration(r, e))
      /\ \A t \in TelegramIds, d \in Profiles : ~StartSignIn(r, t, d)
  BY DEF StartRegistration, StartSignIn, Working, Ended
<1>6. RefetchAccount(r)
  BY <1>1, <1>2, <1>3, <1>4, <1>5 DEF RequestStep
<1>7. Refused(r)
  BY <1>6 DEF RefetchAccount, Inv, StillTrue
<1>8. WithTelegram(req[r].tid) = {}
  <2>1. SUFFICES ASSUME WithTelegram(req[r].tid) # {} PROVE FALSE
    OBVIOUS
  <2>2. PICK a : req' = [req EXCEPT ![r].pc = "found", ![r].account = a, ![r].seen = profile[a]]
    BY <1>6, <2>1 DEF RefetchAccount
  <2> QED
    BY <1>1, <2>2, FoundKeeps
<1> QED
  BY <1>7, <1>8 DEF Refused

LEMMA AnswerTakesEffect ==
  ASSUME Inv, Next, NEW r \in Requests, req[r].pc \in Working, req'[r].pc = "answered",
         r \notin disturbed
  PROVE  telegram'[req[r].account] = req[r].tid /\ witnessed'[r] = Fields
<1>1. RequestStep(r) /\ TypeOK /\ Asks /\ Witness /\ TypeOK'
  BY EndsByItself, TypeInductive DEF Inv, RequestRuns
<1>2. UpdateProfile(r)
  <2>1. ~CreateRegistered(r)
    <3>1. SUFFICES ASSUME CreateRegistered(r) PROVE FALSE
      OBVIOUS
    <3>2. \A pc \in Ended : End(r, pc) => req'[r].pc = pc
      BY <1>1, EndType DEF Idle
    <3> QED
      BY <3>1, <3>2 DEF CreateRegistered, Ended
  <2>2. ~InsertAccount(r)
    <3>1. SUFFICES ASSUME InsertAccount(r) PROVE FALSE
      OBVIOUS
    <3>2. CASE GoTo(r, "refetch")
      BY <1>1, <3>2, GoToType DEF Working, ReqRecords, TypeOK
    <3>3. CASE ~GoTo(r, "refetch")
      <4>1. PICK a : req' = [req EXCEPT ![r].pc = "found", ![r].account = a,
                                        ![r].seen = req[r].data]
        BY <3>1, <3>3 DEF InsertAccount
      <4> QED
        BY <1>1, <4>1, FoundKeeps
    <3> QED
      BY <3>2, <3>3
  <2>3. ~RefetchAccount(r)
    <3>1. SUFFICES ASSUME RefetchAccount(r) PROVE FALSE
      OBVIOUS
    <3>2. CASE End(r, "failed")
      BY <1>1, <3>2, EndType DEF Ended, Idle
    <3>3. CASE ~End(r, "failed")
      <4>1. PICK a : req' = [req EXCEPT ![r].pc = "found", ![r].account = a,
                                        ![r].seen = profile[a]]
        BY <3>1, <3>3 DEF RefetchAccount
      <4> QED
        BY <1>1, <4>1, FoundKeeps
    <3> QED
      BY <3>2, <3>3
  <2>4. (\A e \in Emails : ~StartRegistration(r, e))
        /\ \A t \in TelegramIds, d \in Profiles : ~StartSignIn(r, t, d)
    BY DEF StartRegistration, StartSignIn, Working, Ended
  <2> QED
    BY <1>1, <2>1, <2>2, <2>3, <2>4 DEF RequestStep
<1> DEFINE a == req[r].account
           t == req[r].tid
<1>3. /\ req[r].pc = "found" /\ t \in TelegramIds
      /\ a \in Existing /\ telegram[a] = t
      /\ \A f \in Fields : req[r].seen[f] = req[r].data[f] => f \in witnessed[r]
  BY <1>1, <1>2 DEF UpdateProfile, Inv, StillTrue, Asks
<1>4. /\ telegram' = telegram /\ a \in AccountIds
      /\ profile' = [profile EXCEPT ![a] = [f \in Fields |->
            IF f \in Changed(r) THEN req[r].data[f] ELSE profile[a][f]]]
  BY <1>2, <1>3 DEF UpdateProfile, Existing
<1>5. \A f \in Changed(r) : f \in Fields /\ profile'[a][f] = req[r].data[f]
  BY <1>1, <1>4 DEF Changed, TypeOK
<1>6. \A f \in Changed(r) : f \in StoredNow(r, t, req[r].data)
  BY <1>3, <1>4, <1>5, AccountsAssumption DEF StoredNow
<1>7. witnessed'[r] = witnessed[r] \cup StoredNow(r, t, req[r].data)
  BY <1>1 DEF Witness, Working
<1>8. \A f \in Fields : f \in Changed(r) \/ f \in witnessed[r]
  BY <1>3 DEF Changed
<1>9. witnessed'[r] \subseteq Fields
  BY <1>1 DEF TypeOK
<1> QED
  BY <1>3, <1>4, <1>6, <1>7, <1>8, <1>9

\* A sign-in fails only for the reasons RaceLosersSignIn names.
THEOREM LosersSignIn == Spec => RaceLosersSignIn
<1>1. Inv /\ [Next]_vars => [\A r \in Requests :
          /\ req[r].pc \in Working /\ req'[r].pc = "failed"
          /\ req[r].tid # Nobody /\ r \notin disturbed
          => \E a \in WithEmail(ReservedEmail[req[r].tid]) : telegram[a] # req[r].tid]_vars
  BY FailureExplained
<1> QED
  BY <1>1, InvInit, InvInductive, PTL DEF Spec, RaceLosersSignIn

\* An answered sign-in was for its own account and stored what it sent.
THEOREM AnswersTakeEffect == Spec => SignInsTakeEffect
<1>1. Inv /\ [Next]_vars => [\A r \in Requests :
          /\ req[r].pc \in Working /\ req'[r].pc = "answered"
          /\ r \notin disturbed
          => /\ telegram'[req[r].account] = req[r].tid
             /\ witnessed'[r] = Fields]_vars
  BY AnswerTakesEffect
<1> QED
  BY <1>1, InvInit, InvInductive, PTL DEF Spec, SignInsTakeEffect

=============================================================================
