------------------------------ MODULE Accounts ------------------------------
(***************************************************************************)
(* Accounts of backend/apps/users as apps/authentication creates them: by  *)
(* registration with an email, by the bot's sign-in with a Telegram id and *)
(* by administrators.                                                      *)
(*                                                                         *)
(* One action is one SQL statement with the decisions taken on its result: *)
(* nothing is locked between them, and the unique columns are the only     *)
(* guard.  An email stands for all its spellings: the constraint compares  *)
(* them in lower case.  Passwords, flags and tokens are not distinguished. *)
(***************************************************************************)
EXTENDS Naturals, FiniteSets

CONSTANTS AccountIds,    \* primary keys, never used twice
          Emails,
          TelegramIds,
          ReservedEmail, \* telegram-<id>@bot.ludora.invalid, of each Telegram id
          Fields,        \* the columns Telegram's metadata is stored in
          Profiles,      \* values of those columns
          FormFields,    \* those of them that the change form shows
          Blank,         \* the profile of an account without metadata
          Requests,
          MaxRemoved,    \* bound: accounts that are ever deleted
          Nobody         \* null

ASSUME AccountsAssumption ==
    /\ ReservedEmail \in [TelegramIds -> Emails]
    /\ \A s, t \in TelegramIds : ReservedEmail[s] = ReservedEmail[t] => s = t
    /\ \A d \in Profiles \cup {Blank} : d = [f \in Fields |-> d[f]]
    /\ FormFields \subseteq Fields
    /\ MaxRemoved \in Nat
    /\ Nobody \notin AccountIds \cup Emails \cup TelegramIds

VARIABLES email,      \* User.email, Nobody without a row
          telegram,   \* User.telegram_id
          profile,    \* the metadata columns
          removed,    \* primary keys of deleted rows
          page,       \* the change form an administrator has open
          req,        \* what each request remembers between two statements
          disturbed,  \* history: requests during which an administrator changed accounts
          witnessed   \* history: the request's fields that were stored during it

accountVars == <<email, telegram, profile, removed>>
vars == <<email, telegram, profile, removed, page, req, disturbed, witnessed>>

Working == {"validated", "insert", "refetch", "found"}
Ended == {"idle", "answered", "failed"}

Idle == [pc |-> "idle", email |-> Nobody, tid |-> Nobody, account |-> Nobody,
         data |-> Blank, seen |-> Blank]

Existing == {a \in AccountIds : email[a] # Nobody}
Unused == AccountIds \ (Existing \cup removed)
WithEmail(e) == {a \in Existing : email[a] = e}
WithTelegram(t) == {a \in Existing : telegram[a] = t}

\* Concurrent sign-ins may leave a mixture of their values.
StoredProfiles == [Fields -> {d[f] : d \in Profiles \cup {Blank}, f \in Fields}]

ReqRecords == [pc : Working \cup Ended, email : Emails \cup {Nobody},
               tid : TelegramIds \cup {Nobody}, account : AccountIds \cup {Nobody},
               data : Profiles \cup {Blank}, seen : StoredProfiles]

TypeOK ==
    /\ email \in [AccountIds -> Emails \cup {Nobody}]
    /\ telegram \in [AccountIds -> TelegramIds \cup {Nobody}]
    /\ profile \in [AccountIds -> StoredProfiles]
    /\ removed \subseteq AccountIds
    /\ page \in [account : AccountIds \cup {Nobody}, profile : StoredProfiles, posted : BOOLEAN]
    /\ req \in [Requests -> ReqRecords]
    /\ disturbed \subseteq Requests
    /\ witnessed \in [Requests -> SUBSET Fields]

NoPage == [account |-> Nobody, profile |-> Blank, posted |-> FALSE]

Init ==
    /\ email = [a \in AccountIds |-> Nobody]
    /\ telegram = [a \in AccountIds |-> Nobody]
    /\ profile = [a \in AccountIds |-> Blank]
    /\ removed = {}
    /\ page = NoPage
    /\ req = [r \in Requests |-> Idle]
    /\ disturbed = {}
    /\ witnessed = [r \in Requests |-> {}]

-----------------------------------------------------------------------------
(* UserManager.create_user: one INSERT, refused by either unique column.    *)

InsertUser(a, e, t, d) ==
    /\ a \in Unused
    /\ WithEmail(e) = {}
    /\ t # Nobody => WithTelegram(t) = {}
    /\ email' = [email EXCEPT ![a] = e]
    /\ telegram' = [telegram EXCEPT ![a] = t]
    /\ profile' = [profile EXCEPT ![a] = d]
    /\ UNCHANGED removed

GoTo(r, pc) == req' = [req EXCEPT ![r].pc = pc]
End(r, pc) == req' = [req EXCEPT ![r] = [Idle EXCEPT !.pc = pc]]

-----------------------------------------------------------------------------
(* POST /auth/register/.                                                    *)

\* The serializer's UniqueValidator asks for the email in any spelling, and
\* refuses one that exists.
StartRegistration(r, e) ==
    /\ req[r].pc \in Ended
    /\ WithEmail(e) = {}
    /\ req' = [req EXCEPT ![r] = [Idle EXCEPT !.pc = "validated", !.email = e]]
    /\ UNCHANGED <<accountVars, page>>

\* Nothing catches the IntegrityError of a registration that lost the race.
CreateRegistered(r) ==
    /\ req[r].pc = "validated"
    /\ \/ /\ \E a \in AccountIds : InsertUser(a, req[r].email, Nobody, Blank)
          /\ End(r, "idle")
       \/ /\ WithEmail(req[r].email) # {}
          /\ End(r, "failed")
          /\ UNCHANGED accountVars
    /\ UNCHANGED page

-----------------------------------------------------------------------------
(* POST /auth/telegram/: TelegramAuthenticationSerializer.create.           *)

StartSignIn(r, t, d) ==
    /\ req[r].pc \in Ended
    /\ IF WithTelegram(t) = {}
       THEN req' = [req EXCEPT ![r] = [Idle EXCEPT !.pc = "insert", !.tid = t, !.data = d]]
       ELSE \E a \in WithTelegram(t) :
               req' = [req EXCEPT ![r] =
                          [Idle EXCEPT !.pc = "found", !.tid = t, !.data = d,
                                       !.account = a, !.seen = profile[a]]]
    /\ UNCHANGED <<accountVars, page>>

InsertAccount(r) ==
    LET t == req[r].tid IN
    /\ req[r].pc = "insert"
    /\ \/ \E a \in AccountIds :
             /\ InsertUser(a, ReservedEmail[t], t, req[r].data)
             /\ req' = [req EXCEPT ![r].pc = "found", ![r].account = a,
                                   ![r].seen = req[r].data]
       \/ /\ WithEmail(ReservedEmail[t]) # {} \/ WithTelegram(t) # {}
          /\ GoTo(r, "refetch")
          /\ UNCHANGED accountVars
    /\ UNCHANGED page

\* Fault variant: a request that lost the race fails.
GiveUpTheRace(r) ==
    /\ req[r].pc = "refetch"
    /\ End(r, "failed")
    /\ UNCHANGED <<accountVars, page>>

\* After an IntegrityError: User.objects.get, which raises without a row.
RefetchAccount(r) ==
    /\ req[r].pc = "refetch"
    /\ IF WithTelegram(req[r].tid) = {}
       THEN End(r, "failed")
       ELSE \E a \in WithTelegram(req[r].tid) :
               req' = [req EXCEPT ![r].pc = "found", ![r].account = a, ![r].seen = profile[a]]
    /\ UNCHANGED <<accountVars, page>>

\* Fault variant: blank values are not written.
ChangedIfGiven(r) ==
    {f \in Fields : req[r].seen[f] # req[r].data[f] /\ req[r].data[f] # Blank[f]}

\* The columns whose value differs from the row as it was read.
Changed(r) == {f \in Fields : req[r].seen[f] # req[r].data[f]}

\* save(update_fields=changed) raises when the row has disappeared; without a
\* change nothing is written and the tokens are issued for the row as read.
UpdateProfile(r) ==
    LET a == req[r].account IN
    /\ req[r].pc = "found"
    /\ IF Changed(r) # {} /\ a \notin Existing
       THEN End(r, "failed") /\ UNCHANGED accountVars
       ELSE /\ profile' = [profile EXCEPT ![a] =
                              [f \in Fields |-> IF f \in Changed(r) THEN req[r].data[f]
                                                ELSE profile[a][f]]]
            /\ End(r, "answered")
            /\ UNCHANGED <<email, telegram, removed>>
    /\ UNCHANGED page

-----------------------------------------------------------------------------
(* The administration: one administrator with one change form.              *)

OpenPage(a) ==
    /\ a \in Existing
    /\ page' = [account |-> a, profile |-> profile[a], posted |-> FALSE]
    /\ UNCHANGED <<accountVars, req>>

\* The form is posted: the row is read again, and the columns of the form are
\* replaced by what the page showed.
PostPage ==
    LET a == page.account IN
    /\ a \in Existing
    /\ ~page.posted
    /\ page' = [account |-> a,
                profile |-> [f \in Fields |-> IF f \in FormFields THEN page.profile[f]
                                              ELSE profile[a][f]],
                posted |-> TRUE]
    /\ UNCHANGED <<accountVars, req>>

\* The whole row is saved, with an email and a Telegram id that may have been
\* edited.  The form's validation finds columns that are not unique.
SavePage ==
    LET a == page.account IN
    /\ a \in Existing
    /\ page.posted
    /\ \E e \in Emails, t \in TelegramIds \cup {Nobody} :
          /\ WithEmail(e) \subseteq {a}
          /\ t # Nobody => WithTelegram(t) \subseteq {a}
          /\ email' = [email EXCEPT ![a] = e]
          /\ telegram' = [telegram EXCEPT ![a] = t]
    /\ profile' = [profile EXCEPT ![a] = page.profile]
    /\ page' = NoPage
    /\ UNCHANGED <<removed, req>>

AddUser(e) ==
    /\ \E a \in AccountIds : InsertUser(a, e, Nobody, Blank)
    /\ UNCHANGED <<page, req>>

DeleteUser(a) ==
    /\ a \in Existing
    /\ Cardinality(removed) < MaxRemoved
    /\ email' = [email EXCEPT ![a] = Nobody]
    /\ telegram' = [telegram EXCEPT ![a] = Nobody]
    /\ profile' = [profile EXCEPT ![a] = Blank]
    /\ removed' = removed \cup {a}
    /\ UNCHANGED <<page, req>>

-----------------------------------------------------------------------------
RequestStep(r) ==
    \/ \E e \in Emails : StartRegistration(r, e)
    \/ CreateRegistered(r)
    \/ \E t \in TelegramIds, d \in Profiles : StartSignIn(r, t, d)
    \/ InsertAccount(r) \/ RefetchAccount(r) \/ UpdateProfile(r)

Interference == SavePage \/ \E a \in AccountIds : DeleteUser(a)

Quiet ==
    \/ \E a \in AccountIds : OpenPage(a)
    \/ PostPage
    \/ \E e \in Emails : AddUser(e)

\* What the history variables record of a step: the columns that hold what
\* the request sent, and which requests an administrator disturbed.
StoredNow(r, t, d) ==
    {f \in Fields : \E a \in AccountIds :
        telegram'[a] = t /\ t # Nobody /\ profile'[a][f] = d[f]}

Witness ==
    witnessed' = [r \in Requests |->
        IF req'[r].pc \in Working
        THEN StoredNow(r, req'[r].tid, req'[r].data)
             \cup IF req[r].pc \in Working THEN witnessed[r] ELSE {}
        ELSE IF req[r].pc \in Working /\ req'[r].pc = "answered"
        THEN witnessed[r] \cup StoredNow(r, req[r].tid, req[r].data)
        ELSE {}]

StillWorking == {r \in Requests : req[r].pc \in Working /\ req'[r].pc \in Working}

RequestRuns ==
    /\ \E r \in Requests : RequestStep(r)
    /\ disturbed' = disturbed \cap StillWorking
    /\ Witness

AdministratorInterferes ==
    /\ Interference
    /\ disturbed' = StillWorking
    /\ Witness

AdministratorWorks == Quiet /\ UNCHANGED disturbed /\ Witness

Next == RequestRuns \/ AdministratorInterferes \/ AdministratorWorks

Spec == Init /\ [][Next]_vars

-----------------------------------------------------------------------------
(* Properties.                                                             *)

\* A sign-in that loses the race to create its account signs in all the same
\* ("If another request wins the insert race, retry as a lookup"): it fails only
\* if its reserved email belongs to an account without its Telegram id, or an
\* administrator changed accounts meanwhile.
RaceLosersSignIn ==
    [][\A r \in Requests :
          /\ req[r].pc \in Working /\ req'[r].pc = "failed"
          /\ req[r].tid # Nobody /\ r \notin disturbed
          => \E a \in WithEmail(ReservedEmail[req[r].tid]) : telegram[a] # req[r].tid]_vars

\* Tokens are issued for the account of the Telegram id that asked, and every
\* metadata column held the value sent at some moment of the request, whatever
\* other sign-ins of the same customer wrote in between.  Requests during which
\* an administrator saved or deleted an account are exempt: the form writes back
\* the columns as they were when it was opened.
SignInsTakeEffect ==
    [][\A r \in Requests :
          /\ req[r].pc \in Working /\ req'[r].pc = "answered"
          /\ r \notin disturbed
          => /\ telegram'[req[r].account] = req[r].tid
             /\ witnessed'[r] = Fields]_vars

=============================================================================
