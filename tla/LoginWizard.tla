----------------------------- MODULE LoginWizard -----------------------------
(***************************************************************************)
(* The "Full login" tab: credentials, a Steam Guard code or an approval on *)
(* the phone, polling for the tokens, and the account they are stored in.  *)
(* Each request to Steam runs in a worker and posts a callback, applied in *)
(* order by the UI thread.  The callbacks read and write the ONE wizard of *)
(* the process (a static), which "Try again" and "Go to Accounts" empty    *)
(* while workers of the attempt before may still be out; all they look at  *)
(* is the phase, and the codes' callbacks not even that.                   *)
(*                                                                         *)
(* A user name stands for the account's login and for its Steam ID.        *)
(***************************************************************************)
EXTENDS Integers, Sequences, FiniteSets

CONSTANTS
    WUser, NoWUser, \* accounts; NoWUser is the empty field
    Known,          \* those in the vault at the start
    MaxJobs         \* bound: requests submitted

ASSUME WizardAssumption == NoWUser \notin WUser /\ Known \subseteq WUser /\ MaxJobs \in Nat

VARIABLES
    wiz,        \* LoginWizard
    works,      \* requests out at Steam
    answers,    \* callbacks posted, oldest first
    accounts,   \* [login, sid, owner]: whose tokens the account holds
    jobs,       \* requests submitted so far
    strayed     \* history: the wizard was emptied while a poll or a code was out

wizVars == <<wiz, works, answers, accounts, jobs, strayed>>

Empty == [phase |-> "Credentials", username |-> NoWUser, secret |-> FALSE,
          client |-> NoWUser, account |-> [login |-> NoWUser, sid |-> NoWUser],
          code |-> "None", confirm |-> FALSE,
          busy |-> FALSE, polling |-> FALSE, autoSent |-> FALSE]

WizInit ==
    /\ wiz = Empty /\ works = {} /\ answers = <<>> /\ jobs = 0
    /\ accounts = {[login |-> u, sid |-> u, owner |-> NoWUser] : u \in Known}
    /\ strayed = FALSE

\* A request: what it asks, of which session, and whether approval was an option.
StartWork(kind, client, confirm) ==
    /\ jobs < MaxJobs /\ jobs' = jobs + 1
    /\ works' = works \cup {[n |-> jobs', kind |-> kind, client |-> client, confirm |-> confirm]}

\* What a frame starts by itself before its buttons can be pressed.
PollDue ==
    ~wiz.polling /\ (wiz.phase = "Polling" \/ (wiz.phase = "GuardWait" /\ wiz.confirm))
AutoDue ==
    wiz.phase = "GuardWait" /\ ~wiz.autoSent /\ wiz.code = "Device" /\ wiz.secret
Drawn == ~PollDue /\ ~AutoDue

Aborted == wiz.phase \in {"Done", "Error", "Credentials"}

-----------------------------------------------------------------------------
(* What the user does.                                                     *)

\* Typed, or filled in for a re-login; the field stays open while a request is out.
Username ==
    /\ wiz.phase = "Credentials"
    /\ \E u \in WUser : u # wiz.username /\ wiz' = [wiz EXCEPT !.username = u]
    /\ UNCHANGED <<works, answers, accounts, jobs, strayed>>

SignIn ==
    /\ wiz.phase = "Credentials" /\ wiz.username # NoWUser /\ ~wiz.busy
    /\ \E secret \in BOOLEAN : wiz' = [wiz EXCEPT !.busy = TRUE, !.secret = secret]
    /\ StartWork("begin", wiz.username, FALSE)
    /\ UNCHANGED <<answers, accounts, strayed>>

SubmitCode ==
    /\ wiz.phase = "GuardWait" /\ wiz.code # "None" /\ ~wiz.busy /\ Drawn
    /\ wiz' = [wiz EXCEPT !.busy = TRUE]
    /\ StartWork("code", wiz.client, wiz.confirm)
    /\ UNCHANGED <<answers, accounts, strayed>>

Cancel ==
    /\ wiz.phase \in {"GuardWait", "Polling"} /\ Drawn
    /\ wiz' = [wiz EXCEPT !.busy = FALSE, !.phase = "Error"]
    /\ UNCHANGED <<works, answers, accounts, jobs, strayed>>

\* A request of that kind is out, or its answer not applied yet.
Out(kinds) ==
    \/ \E w \in works : w.kind \in kinds
    \/ \E i \in DOMAIN answers : answers[i].kind \in kinds

Reset_mutant(w) == [Empty EXCEPT !.polling = w.polling]
Reset(w) == Empty

\* "Try again" after an error, "Go to Accounts" after a success.
Restart ==
    /\ wiz.phase \in {"Error", "Done"}
    /\ wiz' = Reset(wiz)
    /\ strayed' = (strayed \/ Out({"poll", "code", "auto"}))
    /\ UNCHANGED <<works, answers, accounts, jobs>>

-----------------------------------------------------------------------------
(* What each frame does by itself while the tab is drawn.                  *)

\* launch_poll_worker
LaunchPoll(w) ==
    IF w.polling
    THEN wiz' = w /\ UNCHANGED <<works, jobs>>
    ELSE wiz' = [w EXCEPT !.polling = TRUE] /\ StartWork("poll", w.client, FALSE)

DrawPoll ==
    /\ PollDue
    /\ LaunchPoll(wiz)
    /\ UNCHANGED <<answers, accounts, strayed>>

DrawAutoCode ==
    /\ AutoDue
    /\ wiz' = [wiz EXCEPT !.autoSent = TRUE, !.busy = TRUE]
    /\ StartWork("auto", wiz.client, wiz.confirm)
    /\ UNCHANGED <<answers, accounts, strayed>>

-----------------------------------------------------------------------------
(* Steam's answers.  A request about no session is refused.                *)

Fails(w) == [kind |-> w.kind, ok |-> FALSE, client |-> w.client, confirm |-> w.confirm,
             code |-> "None"]

BeginSession(w) ==
    {Fails(w)} \cup [kind : {"begin"}, ok : {TRUE}, client : {w.client}, confirm : BOOLEAN,
                     code : {"None", "Device", "Email"}]

SubmitGuardCode(w) ==
    {Fails(w)} \cup (IF w.client = NoWUser THEN {} ELSE {[Fails(w) EXCEPT !.ok = TRUE]})

\* Tokens of the session's account; no answer within two minutes is a failure too.
PollSession(w) ==
    {Fails(w)} \cup (IF w.client = NoWUser THEN {} ELSE {[Fails(w) EXCEPT !.ok = TRUE]})

SteamAnswers ==
    /\ \E w \in works :
        /\ works' = works \ {w}
        /\ \E a \in (IF w.kind = "begin" THEN BeginSession(w)
                     ELSE IF w.kind = "poll" THEN PollSession(w) ELSE SubmitGuardCode(w)) :
            answers' = Append(answers, a)
    /\ UNCHANGED <<wiz, accounts, jobs, strayed>>

-----------------------------------------------------------------------------
(* The callbacks.                                                          *)

Next1(kinds) ==
    /\ answers # <<>> /\ Head(answers).kind \in kinds
    /\ answers' = Tail(answers)

\* Whose sign-in it is was settled when the button was pressed.
SignedFor_mutant(a, w) == w.username
SignedFor(a, w) == a.client

Begun(a) ==
    IF ~a.ok THEN [wiz EXCEPT !.busy = FALSE, !.phase = "Error"]
    ELSE [wiz EXCEPT !.busy = FALSE, !.client = a.client, !.confirm = a.confirm, !.code = a.code,
                     !.account = [login |-> SignedFor(a, wiz), sid |-> a.client],
                     !.phase = IF a.confirm \/ a.code # "None" THEN "GuardWait" ELSE "Polling"]

BeginDone ==
    /\ Next1({"begin"})
    /\ wiz' = Begun(Head(answers))
    /\ UNCHANGED <<works, accounts, jobs, strayed>>

\* A rejected code ends an attempt that has nothing else to wait for, unless the
\* code was made from the shared secret: then the user can type one.
CodeDone ==
    /\ Next1({"code", "auto"})
    /\ LET a == Head(answers)
           w == [wiz EXCEPT !.busy = FALSE]
       IN  CASE ~a.ok -> /\ wiz' = IF a.confirm \/ a.kind = "auto" THEN w
                                   ELSE [w EXCEPT !.phase = "Error"]
                         /\ UNCHANGED <<works, jobs>>
             [] a.ok /\ ~a.confirm -> wiz' = [w EXCEPT !.phase = "Polling"] /\ UNCHANGED <<works, jobs>>
             [] a.ok /\ a.confirm /\ a.kind = "code" -> LaunchPoll(w)
             [] a.ok /\ a.confirm /\ a.kind = "auto" -> wiz' = w /\ UNCHANGED <<works, jobs>>
    /\ UNCHANGED <<accounts, strayed>>

\* find_existing_account of the wizard's account as it is by now.
Existing ==
    LET bySid == {x \in accounts : wiz.account.sid # NoWUser /\ x.sid = wiz.account.sid}
    IN  IF bySid # {} THEN bySid
        ELSE {x \in accounts : wiz.account.login # NoWUser /\ x.login = wiz.account.login}

\* The tokens go to the account found, or to a new one, moved out of the wizard.
StoreTokens(owner) ==
    IF Existing # {}
    THEN /\ \E x \in Existing :
              accounts' = (accounts \ {x})
                          \cup {[x EXCEPT !.sid = wiz.account.sid, !.owner = owner]}
         /\ wiz' = [wiz EXCEPT !.polling = FALSE, !.busy = FALSE, !.phase = "Done"]
    ELSE /\ accounts' = accounts \cup {[login |-> wiz.account.login, sid |-> wiz.account.sid,
                                        owner |-> owner]}
         /\ wiz' = [wiz EXCEPT !.polling = FALSE, !.busy = FALSE, !.phase = "Done",
                               !.account.login = NoWUser, !.secret = FALSE]

PollDone ==
    /\ Next1({"poll"})
    /\ LET a == Head(answers)
       IN  \/ Aborted /\ UNCHANGED <<wiz, accounts>>
           \/ /\ ~Aborted /\ ~a.ok
              /\ wiz' = [wiz EXCEPT !.polling = FALSE, !.busy = FALSE, !.phase = "Error"]
              /\ UNCHANGED accounts
           \/ ~Aborted /\ a.ok /\ StoreTokens(a.client)
    /\ UNCHANGED <<works, jobs, strayed>>

WizNext ==
    \/ Username \/ SignIn \/ SubmitCode \/ Cancel \/ Restart
    \/ DrawPoll \/ DrawAutoCode \/ SteamAnswers
    \/ BeginDone \/ CodeDone \/ PollDone

WizSpec == WizInit /\ [][WizNext]_wizVars

-----------------------------------------------------------------------------

\* Types.
WizTypeOK ==
    /\ wiz \in [phase : {"Credentials", "GuardWait", "Polling", "Done", "Error"},
                username : WUser \cup {NoWUser}, secret : BOOLEAN, client : WUser \cup {NoWUser},
                account : [login : WUser \cup {NoWUser}, sid : WUser \cup {NoWUser}],
                code : {"None", "Device", "Email"}, confirm : BOOLEAN,
                busy : BOOLEAN, polling : BOOLEAN, autoSent : BOOLEAN]
    /\ works \subseteq [n : 1 .. MaxJobs, kind : {"begin", "code", "auto", "poll"},
                        client : WUser \cup {NoWUser}, confirm : BOOLEAN]
    /\ Len(answers) + Cardinality(works) <= MaxJobs
    /\ accounts \subseteq [login : WUser \cup {NoWUser}, sid : WUser \cup {NoWUser},
                           owner : WUser \cup {NoWUser}]
    /\ jobs \in 0 .. MaxJobs /\ strayed \in BOOLEAN

\* The tokens an account holds are its own, under its own login, whatever is typed
\* into the form meanwhile and whichever way the sign-in is confirmed -- as long as
\* no attempt was given up while a worker of it was out.  (Then its late poll stores
\* its tokens in the account of the attempt that followed, and its late code answer
\* re-opens "Sign in" while one is under way.)
TokensAreTheirOwn ==
    strayed \/ \A x \in accounts : x.login = x.sid /\ x.owner \in {NoWUser, x.sid}

\* A wizard that says it waits for Steam has a poll out, or starts one with the next
\* frame: it ends by tokens, an error or the timeout without the user -- with the
\* same exception.
WaitingIsPolled ==
    wiz.polling /\ ~Aborted => strayed \/ Out({"poll"})

\* Types, and no account holds another's tokens.
WizardInv == WizTypeOK /\ TokensAreTheirOwn
=============================================================================
