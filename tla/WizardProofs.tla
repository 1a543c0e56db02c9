----------------------------- MODULE WizardProofs -----------------------------
(***************************************************************************)
(* The dialogs that sign in and that set up Steam Guard.                   *)
(*   - The sign-in wizard, for any accounts and any number of requests: as *)
(*     long as no attempt is given up while a worker of it is out, the     *)
(*     tokens Steam gives reach the account that signed in, and a wizard   *)
(*     that waits has something to wait for.                               *)
(*   - The Steam Guard dialogs, for any accounts, any number of            *)
(*     authenticators handed out and any number of requests: of an account *)
(*     none of whose requests went astray, the secrets Steam counts on are *)
(*     in the vault and on disk, and what the vault calls enrolled is live.*)
(***************************************************************************)
EXTENDS LoginWizard, SdaWizard, FiniteSetTheorems, SequenceTheorems, TLAPS

-------------------------------------------------------------------------------
(***************************************************************************)
(* The sign-in wizard: what its parts are.                                 *)
(***************************************************************************)
Users == WUser \cup {NoWUser}
LoginKinds == {"begin", "code", "auto", "poll"}
CodeKinds == {"code", "auto"}

Wizards == [phase : {"Credentials", "GuardWait", "Polling", "Done", "Error"},
            username : Users, secret : BOOLEAN, client : Users,
            account : [login : Users, sid : Users],
            code : {"None", "Device", "Email"}, confirm : BOOLEAN,
            busy : BOOLEAN, polling : BOOLEAN, autoSent : BOOLEAN]
LoginRequests == [n : 1 .. MaxJobs, kind : LoginKinds, client : Users, confirm : BOOLEAN]
Replies == [kind : LoginKinds, ok : BOOLEAN, client : Users, confirm : BOOLEAN,
            code : {"None", "Device", "Email"}]
Accounts == [login : Users, sid : Users, owner : Users]

-------------------------------------------------------------------------------
(* The requests under way: at Steam (ws) or answered and not yet applied (q). *)

AtWork(ws, q) == ws \cup {q[i] : i \in DOMAIN q}

HasKind(ws, q, kinds) == \E x \in AtWork(ws, q) : x.kind \in kinds

\* At most one request of these kinds is under way.
Once(ws, q, kinds) ==
    /\ \A v, w \in ws : v.kind \in kinds /\ w.kind \in kinds => v = w
    /\ \A i, j \in DOMAIN q : q[i].kind \in kinds /\ q[j].kind \in kinds => i = j
    /\ \A w \in ws, i \in DOMAIN q : ~(w.kind \in kinds /\ q[i].kind \in kinds)

LEMMA InAtWork ==
    ASSUME NEW ws, NEW q, NEW x
    PROVE  x \in AtWork(ws, q) <=> x \in ws \/ \E i \in DOMAIN q : x = q[i]
    BY DEF AtWork

LEMMA OutHas == \A kinds : Out(kinds) <=> HasKind(works, answers, kinds)
    BY DEF Out, HasKind, AtWork

\* A request is sent.
LEMMA Sent ==
    ASSUME NEW ws, NEW q, NEW r, NEW kinds
    PROVE  /\ AtWork(ws \cup {r}, q) = AtWork(ws, q) \cup {r}
           /\ HasKind(ws \cup {r}, q, kinds) <=> HasKind(ws, q, kinds) \/ r.kind \in kinds
           /\ Once(ws, q, kinds) /\ (r.kind \in kinds => ~HasKind(ws, q, kinds))
                 => Once(ws \cup {r}, q, kinds)
<1>1. AtWork(ws \cup {r}, q) = AtWork(ws, q) \cup {r}
    BY DEF AtWork
<1>2. HasKind(ws \cup {r}, q, kinds) <=> HasKind(ws, q, kinds) \/ r.kind \in kinds
    BY <1>1 DEF HasKind
<1>3. Once(ws, q, kinds) /\ (r.kind \in kinds => ~HasKind(ws, q, kinds))
         => Once(ws \cup {r}, q, kinds)
    BY DEF HasKind, AtWork, Once
<1> QED
    BY <1>1, <1>2, <1>3

\* Steam answers one: what was at Steam is posted.
LEMMA Answered ==
    ASSUME NEW S, NEW ws, NEW q \in Seq(S), NEW w \in ws, NEW a \in S
    PROVE  /\ Append(q, a) \in Seq(S) /\ Len(Append(q, a)) = Len(q) + 1
           /\ AtWork(ws \ {w}, Append(q, a)) \subseteq AtWork(ws, q) \cup {a}
           /\ a \in AtWork(ws \ {w}, Append(q, a))
           /\ \A i \in DOMAIN q : i \in DOMAIN Append(q, a) /\ Append(q, a)[i] = q[i]
           /\ \A i \in DOMAIN Append(q, a) :
                  i \in DOMAIN q \/ (i = Len(q) + 1 /\ Append(q, a)[i] = a)
<1> DEFINE q2 == Append(q, a)
<1>1. /\ q2 \in Seq(S) /\ Len(q2) = Len(q) + 1 /\ Len(q) \in Nat
      /\ q2[Len(q) + 1] = a
      /\ \A i \in 1 .. Len(q) : q2[i] = q[i]
    BY AppendProperties, LenProperties
<1> HIDE DEF q2
<1>2. DOMAIN q2 = 1 .. Len(q) + 1 /\ DOMAIN q = 1 .. Len(q)
    BY <1>1, LenProperties
<1>3. /\ DOMAIN q \subseteq DOMAIN q2 /\ Len(q) + 1 \in DOMAIN q2
      /\ \A i \in DOMAIN q : q2[i] = q[i]
      /\ \A i \in DOMAIN q2 : i \in DOMAIN q \/ (i = Len(q) + 1 /\ q2[i] = a)
    BY <1>1, <1>2
<1>4. AtWork(ws \ {w}, q2) \subseteq AtWork(ws, q) \cup {a}
    BY <1>3, InAtWork
<1>5. a \in AtWork(ws \ {w}, q2)
    BY <1>1, <1>3, InAtWork
<1> QED
    BY <1>1, <1>3, <1>4, <1>5 DEF q2

\* For one of the kinds, the answer stands for the question.
LEMMA AnsweredOut ==
    ASSUME NEW S, NEW ws, NEW q \in Seq(S), NEW w \in ws, NEW a \in S, a.kind = w.kind,
           NEW kinds
    PROVE  /\ Once(ws, q, kinds) => Once(ws \ {w}, Append(q, a), kinds)
           /\ HasKind(ws \ {w}, Append(q, a), kinds) <=> HasKind(ws, q, kinds)
<1> DEFINE q2 == Append(q, a)
<1>1. a \in AtWork(ws \ {w}, q2)
    BY Answered
<1>3. /\ \A i \in DOMAIN q : i \in DOMAIN q2 /\ q2[i] = q[i]
      /\ \A i \in DOMAIN q2 : i \in DOMAIN q \/ (i = Len(q) + 1 /\ q2[i] = a)
    BY Answered
<1>4. AtWork(ws \ {w}, q2) \subseteq AtWork(ws, q) \cup {a}
    BY Answered
<1> HIDE DEF q2
<1>5. Once(ws, q, kinds) => Once(ws \ {w}, q2, kinds)
  <2> SUFFICES ASSUME Once(ws, q, kinds) PROVE Once(ws \ {w}, q2, kinds)
      OBVIOUS
  <2>1. \A v, u \in ws \ {w} : v.kind \in kinds /\ u.kind \in kinds => v = u
      BY DEF Once
  <2>2. ASSUME NEW i \in DOMAIN q2, NEW j \in DOMAIN q2, q2[i].kind \in kinds, q2[j].kind \in kinds
        PROVE  i = j
    <3>1. CASE i \in DOMAIN q /\ j \in DOMAIN q
        BY <2>2, <3>1, <1>3 DEF Once
    <3>2. CASE i \notin DOMAIN q /\ j \notin DOMAIN q
        BY <2>2, <3>2, <1>3
    <3>3. CASE i \in DOMAIN q /\ j \notin DOMAIN q
        BY <2>2, <3>3, <1>3 DEF Once
    <3>4. CASE i \notin DOMAIN q /\ j \in DOMAIN q
        BY <2>2, <3>4, <1>3 DEF Once
    <3> QED
        BY <3>1, <3>2, <3>3, <3>4
  <2>3. ASSUME NEW v \in ws \ {w}, NEW i \in DOMAIN q2, v.kind \in kinds, q2[i].kind \in kinds
        PROVE  FALSE
    <3>1. CASE i \in DOMAIN q
        BY <2>3, <3>1, <1>3 DEF Once
    <3>2. CASE i \notin DOMAIN q
        BY <2>3, <3>2, <1>3 DEF Once
    <3> QED
        BY <3>1, <3>2
  <2> QED
      BY <2>1, <2>2, <2>3 DEF Once
<1>6. HasKind(ws \ {w}, q2, kinds) => HasKind(ws, q, kinds)
  <2>1. w \in AtWork(ws, q)
      BY InAtWork
  <2> QED
      BY <1>4, <2>1 DEF HasKind
<1>7. HasKind(ws, q, kinds) => HasKind(ws \ {w}, q2, kinds)
  <2> SUFFICES ASSUME HasKind(ws, q, kinds) PROVE HasKind(ws \ {w}, q2, kinds)
      OBVIOUS
  <2>2. PICK x \in AtWork(ws, q) : x.kind \in kinds
      BY DEF HasKind
  <2>3. CASE x \in ws
      BY <1>1, <2>2, <2>3, InAtWork DEF HasKind
  <2>4. CASE \E i \in DOMAIN q : x = q[i]
    <3>1. x \in AtWork(ws \ {w}, q2)
        BY <2>4, <1>3, InAtWork
    <3> QED
        BY <2>2, <3>1 DEF HasKind
  <2> QED
      BY <2>2, <2>3, <2>4, InAtWork
<1> QED
    BY <1>5, <1>6, <1>7 DEF q2

\* The UI thread takes the oldest answer.
LEMMA Taken ==
    ASSUME NEW S, NEW ws, NEW q \in Seq(S), q # <<>>
    PROVE  /\ Head(q) \in S /\ Head(q) \in AtWork(ws, q)
           /\ Tail(q) \in Seq(S) /\ Len(Tail(q)) = Len(q) - 1
           /\ AtWork(ws, Tail(q)) \subseteq AtWork(ws, q)
           /\ \A kinds :
                 /\ Once(ws, q, kinds) => Once(ws, Tail(q), kinds)
                 /\ HasKind(ws, Tail(q), kinds) => HasKind(ws, q, kinds)
                 /\ Head(q).kind \notin kinds /\ HasKind(ws, q, kinds) => HasKind(ws, Tail(q), kinds)
                 /\ Head(q).kind \in kinds /\ Once(ws, q, kinds) => ~HasKind(ws, Tail(q), kinds)
<1> DEFINE q2 == Tail(q)
<1>1. /\ q2 \in Seq(S) /\ Len(q2) = Len(q) - 1 /\ Len(q) \in Nat \ {0}
      /\ \A i \in 1 .. Len(q2) : q2[i] = q[i + 1]
      /\ Head(q) = q[1] /\ Head(q) \in S
    BY HeadTailProperties, EmptySeq, LenProperties
<1> HIDE DEF q2
<1>2. DOMAIN q2 = 1 .. Len(q) - 1 /\ DOMAIN q = 1 .. Len(q)
    BY <1>1, LenProperties
<1>3. /\ \A i \in DOMAIN q2 : i + 1 \in DOMAIN q /\ i + 1 # 1 /\ q2[i] = q[i + 1]
      /\ 1 \in DOMAIN q
      /\ \A i, j \in DOMAIN q2 : i + 1 = j + 1 => i = j
    BY <1>1, <1>2
<1>4. ASSUME NEW i \in DOMAIN q PROVE i = 1 \/ \E j \in DOMAIN q2 : q2[j] = q[i]
  <2>1. i = 1 \/ (i - 1 \in DOMAIN q2 /\ (i - 1) + 1 = i)
      BY <1>1, <1>2
  <2> QED
      BY <2>1, <1>3
<1>5. Head(q) \in AtWork(ws, q)
    BY <1>1, <1>3, InAtWork
<1>6. AtWork(ws, q2) \subseteq AtWork(ws, q)
    BY <1>3, InAtWork
<1>7. ASSUME NEW kinds
      PROVE  /\ Once(ws, q, kinds) => Once(ws, q2, kinds)
             /\ HasKind(ws, q2, kinds) => HasKind(ws, q, kinds)
             /\ Head(q).kind \notin kinds /\ HasKind(ws, q, kinds) => HasKind(ws, q2, kinds)
             /\ Head(q).kind \in kinds /\ Once(ws, q, kinds) => ~HasKind(ws, q2, kinds)
  <2>1. Once(ws, q, kinds) => Once(ws, q2, kinds)
      BY <1>3 DEF Once
  <2>2. HasKind(ws, q2, kinds) => HasKind(ws, q, kinds)
      BY <1>6 DEF HasKind
  <2>3. ASSUME Head(q).kind \notin kinds, HasKind(ws, q, kinds) PROVE HasKind(ws, q2, kinds)
    <3>1. PICK x \in AtWork(ws, q) : x.kind \in kinds
        BY <2>3 DEF HasKind
    <3>2. x \in AtWork(ws, q2)
        BY <2>3, <3>1, <1>1, <1>4, InAtWork
    <3> QED
        BY <3>1, <3>2 DEF HasKind
  <2>4. ASSUME Head(q).kind \in kinds, Once(ws, q, kinds), HasKind(ws, q2, kinds) PROVE FALSE
    <3>1. PICK x \in AtWork(ws, q2) : x.kind \in kinds
        BY <2>4 DEF HasKind
    <3>2. CASE x \in ws
        BY <2>4, <3>1, <3>2, <1>1, <1>3 DEF Once
    <3>3. CASE \E i \in DOMAIN q2 : x = q2[i]
        BY <2>4, <3>1, <3>3, <1>1, <1>3 DEF Once
    <3> QED
        BY <3>1, <3>2, <3>3, InAtWork
  <2> QED
      BY <2>1, <2>2, <2>3, <2>4
<1> QED
    BY <1>1, <1>5, <1>6, <1>7 DEF q2

-------------------------------------------------------------------------------
(* The inductive invariant. *)

WizTypes ==
    /\ wiz \in Wizards
    /\ works \subseteq LoginRequests /\ IsFiniteSet(works)
    /\ answers \in Seq(Replies)
    /\ Len(answers) + Cardinality(works) <= jobs
    /\ accounts \subseteq Accounts
    /\ jobs \in 0 .. MaxJobs /\ strayed \in BOOLEAN

\* A request is about the session the wizard is in, and knows whether approval on
\* the phone was an option of it.
Matches(x) ==
    /\ x.kind = "begin" => x.client \in WUser
    /\ x.kind # "begin" => x.client = wiz.client
    /\ x.kind \in CodeKinds => x.confirm = wiz.confirm

Told ==
    /\ Once(works, answers, {"begin"})
    /\ Once(works, answers, CodeKinds)
    /\ Once(works, answers, {"poll"})
    /\ \A x \in AtWork(works, answers) : Matches(x)

\* What is under way in which phase: a sign-in locks the form, a code locks the
\* code's page, and only an attempt whose approval is an option polls meanwhile.
Stages ==
    /\ Out({"begin"}) => wiz.phase = "Credentials" /\ wiz.busy
    /\ wiz.phase = "Credentials" =>
          ~Out(CodeKinds) /\ ~Out({"poll"}) /\ ~wiz.polling /\ wiz.client = NoWUser /\ ~wiz.confirm
    /\ wiz.phase \in {"GuardWait", "Polling"} \/ Out(CodeKinds) => wiz.client # NoWUser
    /\ wiz.client # NoWUser /\ wiz.phase # "Done" =>
          wiz.account.login = wiz.client /\ wiz.account.sid = wiz.client
    /\ wiz.confirm => wiz.phase # "Polling"
    /\ Out(CodeKinds) => /\ wiz.phase # "Polling"
                         /\ wiz.phase = "GuardWait" => wiz.busy
                         /\ ~wiz.confirm => wiz.phase # "Done"
    /\ ~wiz.confirm /\ (wiz.phase = "GuardWait" \/ Out(CodeKinds)) => ~wiz.polling
    /\ AutoDue => ~Out(CodeKinds)

\* A poll is out exactly while the wizard believes it.
Polled ==
    /\ Out({"poll"}) => wiz.polling
    /\ wiz.polling /\ ~Aborted => Out({"poll"})

OwnTokens == \A x \in accounts : x.login = x.sid /\ x.owner \in {NoWUser, x.sid}

WizInd == WizTypes /\ (strayed \/ (Told /\ Stages /\ Polled /\ OwnTokens))

USE WizardAssumption

LEMMA Strays == Out({"poll", "code", "auto"}) <=> Out(CodeKinds) \/ Out({"poll"})
    BY DEF Out, CodeKinds

\* A request is sent, and answers wait as they did.
LEMMA StartWorkSends ==
    ASSUME WizTypes, NEW k \in LoginKinds, NEW c \in Users, NEW b \in BOOLEAN, StartWork(k, c, b),
           UNCHANGED answers
    PROVE  /\ works' \subseteq LoginRequests /\ IsFiniteSet(works')
           /\ Len(answers') + Cardinality(works') <= jobs' /\ jobs' \in 0 .. MaxJobs
           /\ \A kinds : Out(kinds)' <=> Out(kinds) \/ k \in kinds
           /\ \A kinds : Once(works, answers, kinds) /\ (k \in kinds => ~Out(kinds))
                         => Once(works, answers, kinds)'
           /\ \A x \in AtWork(works, answers)' :
                 x \in AtWork(works, answers) \/ (x.kind = k /\ x.client = c /\ x.confirm = b)
<1> DEFINE r == [n |-> jobs', kind |-> k, client |-> c, confirm |-> b]
<1>1. r \in LoginRequests /\ r.kind = k /\ r.client = c /\ r.confirm = b
    BY DEF LoginRequests, WizTypes, StartWork
<1>2. works' = works \cup {r} /\ jobs' = jobs + 1 /\ jobs < MaxJobs
    BY DEF StartWork
<1> HIDE DEF r
<1>3. works' \subseteq LoginRequests /\ jobs' \in 0 .. MaxJobs
    BY <1>1, <1>2 DEF WizTypes
<1>4. /\ IsFiniteSet(works') /\ Cardinality(works') \in Nat /\ Cardinality(works) \in Nat
      /\ Cardinality(works') <= Cardinality(works) + 1
  <2>1. IsFiniteSet(works) /\ Cardinality(works) \in Nat
      BY FS_CardinalityType DEF WizTypes
  <2>2. /\ IsFiniteSet(works \cup {r})
        /\ \/ Cardinality(works \cup {r}) = Cardinality(works)
           \/ Cardinality(works \cup {r}) = Cardinality(works) + 1
      BY <2>1, FS_AddElement
  <2> QED
      BY <2>1, <2>2, <1>2
<1>5. Len(answers) \in Nat
    BY LenProperties DEF WizTypes
<1>6. Len(answers') + Cardinality(works') <= jobs'
    BY <1>2, <1>4, <1>5 DEF WizTypes
<1>7. ASSUME NEW kinds
      PROVE  /\ Out(kinds)' <=> Out(kinds) \/ k \in kinds
             /\ Once(works, answers, kinds) /\ (k \in kinds => ~Out(kinds))
                   => Once(works, answers, kinds)'
  <2>1. Out(kinds) <=> HasKind(works, answers, kinds)
      BY OutHas
  <2>2. Out(kinds)' <=> HasKind(works, answers, kinds)'
      BY DEF Out, HasKind, AtWork
  <2> QED
      BY <2>1, <2>2, <1>1, <1>2, Sent
<1>8. AtWork(works, answers)' = AtWork(works, answers) \cup {r}
    BY <1>2 DEF AtWork
<1> QED
    BY <1>1, <1>3, <1>4, <1>6, <1>7, <1>8

\* The UI thread takes an answer and sends nothing.
LEMMA Next1Takes ==
    ASSUME WizTypes, NEW ks, Next1(ks), UNCHANGED <<works, jobs>>
    PROVE  /\ answers' \in Seq(Replies) /\ Len(answers') + Cardinality(works') <= jobs'
           /\ Head(answers) \in Replies /\ Head(answers) \in AtWork(works, answers)
           /\ Head(answers).kind \in ks
           /\ \A kinds : /\ Out(kinds)' => Out(kinds)
                         /\ Out(kinds) /\ Head(answers).kind \notin kinds => Out(kinds)'
                         /\ Once(works, answers, kinds) => Once(works, answers, kinds)'
                         /\ Once(works, answers, kinds) /\ Head(answers).kind \in kinds
                               => ~Out(kinds)'
                         /\ Head(answers).kind \in kinds => Out(kinds)
           /\ AtWork(works, answers)' \subseteq AtWork(works, answers)
<1>1. answers \in Seq(Replies) /\ answers # <<>> /\ answers' = Tail(answers)
    BY DEF WizTypes, Next1
<1>2. /\ Head(answers) \in Replies /\ Head(answers) \in AtWork(works, answers)
      /\ answers' \in Seq(Replies) /\ Len(answers') = Len(answers) - 1
      /\ AtWork(works, answers)' \subseteq AtWork(works, answers)
    BY <1>1, Taken
<1>3. Len(answers') + Cardinality(works') <= jobs'
  <2>1. Len(answers) \in Nat /\ Cardinality(works) \in Nat
      BY LenProperties, FS_CardinalityType DEF WizTypes
  <2> QED
      BY <1>2, <2>1 DEF WizTypes
<1>4. ASSUME NEW kinds
      PROVE  /\ Out(kinds)' => Out(kinds)
             /\ Out(kinds) /\ Head(answers).kind \notin kinds => Out(kinds)'
             /\ Once(works, answers, kinds) => Once(works, answers, kinds)'
             /\ Once(works, answers, kinds) /\ Head(answers).kind \in kinds => ~Out(kinds)'
             /\ Head(answers).kind \in kinds => Out(kinds)
  <2>1. Out(kinds) <=> HasKind(works, answers, kinds)
      BY OutHas
  <2>2. Out(kinds)' <=> HasKind(works, answers', kinds)
      BY DEF Out, HasKind, AtWork
  <2>3. Head(answers).kind \in kinds => HasKind(works, answers, kinds)
      BY <1>2 DEF HasKind
  <2> QED
      BY <2>1, <2>2, <2>3, <1>1, Taken
<1> QED
    BY <1>2, <1>3, <1>4 DEF Next1


-------------------------------------------------------------------------------
(* The actions that start or wait: nothing is stored. *)

LEMMA UsernameInd == ASSUME WizInd, Username PROVE WizInd'
<1>1. PICK u \in WUser : wiz' = [wiz EXCEPT !.username = u]
    BY DEF Username
<1>2. wiz \in Wizards /\ UNCHANGED <<works, answers, accounts, jobs, strayed>>
    BY DEF WizInd, WizTypes, Username
<1>3. /\ wiz' \in Wizards /\ wiz'.phase = wiz.phase /\ wiz'.client = wiz.client
      /\ wiz'.account = wiz.account /\ wiz'.confirm = wiz.confirm /\ wiz'.busy = wiz.busy
      /\ wiz'.polling = wiz.polling /\ wiz'.autoSent = wiz.autoSent /\ wiz'.code = wiz.code
      /\ wiz'.secret = wiz.secret
    BY <1>1, <1>2 DEF Wizards, Users
<1>4. WizTypes'
    BY <1>2, <1>3 DEF WizInd, WizTypes
<1>5. Told => Told'
    BY <1>2, <1>3 DEF Told, Matches, AtWork, Once
<1>6. Stages /\ Polled /\ OwnTokens => (Stages /\ Polled /\ OwnTokens)'
    BY <1>2, <1>3 DEF Stages, Polled, OwnTokens, Out, Aborted, AutoDue
<1> QED
    BY <1>2, <1>4, <1>5, <1>6 DEF WizInd

LEMMA SignInInd == ASSUME WizInd, SignIn PROVE WizInd'
<1>1. PICK s \in BOOLEAN : wiz' = [wiz EXCEPT !.busy = TRUE, !.secret = s]
    BY DEF SignIn
<1>2. /\ wiz \in Wizards /\ UNCHANGED <<answers, accounts, strayed>> /\ WizTypes
      /\ StartWork("begin", wiz.username, FALSE) /\ wiz.phase = "Credentials" /\ ~wiz.busy
      /\ wiz.username \in WUser
    BY DEF WizInd, WizTypes, SignIn, Wizards, Users
<1>3. /\ wiz'.phase = wiz.phase /\ wiz'.client = wiz.client
      /\ wiz'.account = wiz.account /\ wiz'.confirm = wiz.confirm /\ wiz'.busy
      /\ wiz'.polling = wiz.polling /\ wiz'.autoSent = wiz.autoSent /\ wiz'.code = wiz.code
    BY <1>1, <1>2 DEF Wizards
<1>4. wiz' \in Wizards
    BY <1>1, <1>2 DEF Wizards
<1>5. /\ works' \subseteq LoginRequests /\ IsFiniteSet(works')
      /\ Len(answers') + Cardinality(works') <= jobs' /\ jobs' \in 0 .. MaxJobs
      /\ \A kinds : Out(kinds)' <=> Out(kinds) \/ "begin" \in kinds
      /\ \A kinds : Once(works, answers, kinds) /\ ("begin" \in kinds => ~Out(kinds))
                     => Once(works, answers, kinds)'
      /\ \A x \in AtWork(works, answers)' :
            \/ x \in AtWork(works, answers)
            \/ x.kind = "begin" /\ x.client = wiz.username /\ x.confirm = FALSE
    BY <1>2, StartWorkSends DEF LoginKinds, Users
<1>6. WizTypes'
    BY <1>2, <1>4, <1>5 DEF WizTypes
<1>7. CASE strayed
    BY <1>2, <1>6, <1>7 DEF WizInd
<1>8. CASE Told /\ Stages /\ Polled /\ OwnTokens
  <2>1. /\ ~Out({"begin"}) /\ ~Out(CodeKinds) /\ ~Out({"poll"})
      BY <1>2, <1>8 DEF Stages
  <2>2. /\ Out({"begin"})' /\ ~Out(CodeKinds)' /\ ~Out({"poll"})'
      BY <1>5, <2>1 DEF CodeKinds
  <2>3. Told'
      BY <1>2, <1>3, <1>5, <1>8, <2>1 DEF Told, Matches, CodeKinds
  <2>4. Stages'
      BY <1>2, <1>3, <1>8, <2>2 DEF Stages, AutoDue
  <2>5. Polled' /\ OwnTokens'
      BY <1>2, <1>3, <1>8, <2>2 DEF Stages, Polled, OwnTokens, Aborted
  <2> QED
      BY <1>6, <2>3, <2>4, <2>5 DEF WizInd
<1> QED
    BY <1>7, <1>8 DEF WizInd


LEMMA SubmitCodeInd == ASSUME WizInd, SubmitCode PROVE WizInd'
<1>1. /\ wiz \in Wizards /\ UNCHANGED <<answers, accounts, strayed>> /\ WizTypes
      /\ wiz' = [wiz EXCEPT !.busy = TRUE]
      /\ StartWork("code", wiz.client, wiz.confirm) /\ wiz.phase = "GuardWait" /\ ~wiz.busy
      /\ wiz.client \in Users /\ wiz.confirm \in BOOLEAN /\ ~AutoDue
    BY DEF WizInd, WizTypes, SubmitCode, Wizards, Drawn
<1>2. /\ wiz'.phase = wiz.phase /\ wiz'.client = wiz.client /\ wiz'.secret = wiz.secret
      /\ wiz'.account = wiz.account /\ wiz'.confirm = wiz.confirm /\ wiz'.busy
      /\ wiz'.polling = wiz.polling /\ wiz'.autoSent = wiz.autoSent /\ wiz'.code = wiz.code
    BY <1>1 DEF Wizards
<1>3. wiz' \in Wizards
    BY <1>1 DEF Wizards
<1>4. /\ works' \subseteq LoginRequests /\ IsFiniteSet(works')
      /\ Len(answers') + Cardinality(works') <= jobs' /\ jobs' \in 0 .. MaxJobs
      /\ \A kinds : Out(kinds)' <=> Out(kinds) \/ "code" \in kinds
      /\ \A kinds : Once(works, answers, kinds) /\ ("code" \in kinds => ~Out(kinds))
                     => Once(works, answers, kinds)'
      /\ \A x \in AtWork(works, answers)' :
            \/ x \in AtWork(works, answers)
            \/ x.kind = "code" /\ x.client = wiz.client /\ x.confirm = wiz.confirm
    BY <1>1, StartWorkSends DEF LoginKinds
<1>5. WizTypes'
    BY <1>1, <1>3, <1>4 DEF WizTypes
<1>6. CASE strayed
    BY <1>1, <1>5, <1>6 DEF WizInd
<1>7. CASE Told /\ Stages /\ Polled /\ OwnTokens
  <2>1. ~Out(CodeKinds) /\ ~Out({"begin"})
      BY <1>1, <1>7 DEF Stages
  <2>2. Out(CodeKinds)' /\ ~Out({"begin"})' /\ (Out({"poll"})' <=> Out({"poll"}))
      BY <1>4, <2>1 DEF CodeKinds
  <2>3. Told'
      BY <1>1, <1>2, <1>4, <1>7, <2>1 DEF Told, Matches, CodeKinds
  <2>4. Stages'
      BY <1>1, <1>2, <1>7, <2>1, <2>2 DEF Stages, AutoDue
  <2>5. Polled' /\ OwnTokens'
      BY <1>1, <1>2, <1>7, <2>2 DEF Polled, OwnTokens, Aborted
  <2> QED
      BY <1>5, <2>3, <2>4, <2>5 DEF WizInd
<1> QED
    BY <1>6, <1>7 DEF WizInd

LEMMA DrawAutoCodeInd == ASSUME WizInd, DrawAutoCode PROVE WizInd'
<1>1. /\ wiz \in Wizards /\ UNCHANGED <<answers, accounts, strayed>> /\ WizTypes
      /\ wiz' = [wiz EXCEPT !.autoSent = TRUE, !.busy = TRUE]
      /\ StartWork("auto", wiz.client, wiz.confirm) /\ wiz.phase = "GuardWait"
      /\ wiz.client \in Users /\ wiz.confirm \in BOOLEAN /\ AutoDue
    BY DEF WizInd, WizTypes, DrawAutoCode, Wizards, AutoDue
<1>2. /\ wiz'.phase = wiz.phase /\ wiz'.client = wiz.client
      /\ wiz'.account = wiz.account /\ wiz'.confirm = wiz.confirm /\ wiz'.busy
      /\ wiz'.polling = wiz.polling /\ wiz'.autoSent
    BY <1>1 DEF Wizards
<1>3. wiz' \in Wizards
    BY <1>1 DEF Wizards
<1>4. /\ works' \subseteq LoginRequests /\ IsFiniteSet(works')
      /\ Len(answers') + Cardinality(works') <= jobs' /\ jobs' \in 0 .. MaxJobs
      /\ \A kinds : Out(kinds)' <=> Out(kinds) \/ "auto" \in kinds
      /\ \A kinds : Once(works, answers, kinds) /\ ("auto" \in kinds => ~Out(kinds))
                     => Once(works, answers, kinds)'
      /\ \A x \in AtWork(works, answers)' :
            \/ x \in AtWork(works, answers)
            \/ x.kind = "auto" /\ x.client = wiz.client /\ x.confirm = wiz.confirm
    BY <1>1, StartWorkSends DEF LoginKinds
<1>5. WizTypes'
    BY <1>1, <1>3, <1>4 DEF WizTypes
<1>6. CASE strayed
    BY <1>1, <1>5, <1>6 DEF WizInd
<1>7. CASE Told /\ Stages /\ Polled /\ OwnTokens
  <2>1. ~Out(CodeKinds) /\ ~Out({"begin"})
      BY <1>1, <1>7 DEF Stages
  <2>2. Out(CodeKinds)' /\ ~Out({"begin"})' /\ (Out({"poll"})' <=> Out({"poll"}))
      BY <1>4, <2>1 DEF CodeKinds
  <2>3. Told'
      BY <1>1, <1>2, <1>4, <1>7, <2>1 DEF Told, Matches, CodeKinds
  <2>4. Stages'
      BY <1>1, <1>2, <1>7, <2>1, <2>2 DEF Stages, AutoDue
  <2>5. Polled' /\ OwnTokens'
      BY <1>1, <1>2, <1>7, <2>2 DEF Polled, OwnTokens, Aborted
  <2> QED
      BY <1>5, <2>3, <2>4, <2>5 DEF WizInd
<1> QED
    BY <1>6, <1>7 DEF WizInd

LEMMA CancelInd == ASSUME WizInd, Cancel PROVE WizInd'
<1>1. /\ wiz \in Wizards /\ UNCHANGED <<works, answers, accounts, jobs, strayed>> /\ WizTypes
      /\ wiz' = [wiz EXCEPT !.busy = FALSE, !.phase = "Error"]
      /\ wiz.phase \in {"GuardWait", "Polling"}
    BY DEF WizInd, WizTypes, Cancel
<1>2. /\ wiz'.phase = "Error" /\ wiz'.client = wiz.client
      /\ wiz'.account = wiz.account /\ wiz'.confirm = wiz.confirm
      /\ wiz'.polling = wiz.polling
    BY <1>1 DEF Wizards
<1>3. wiz' \in Wizards
    BY <1>1 DEF Wizards
<1>4. WizTypes'
    BY <1>1, <1>3 DEF WizTypes
<1>5. Told => Told'
    BY <1>1, <1>2 DEF Told, Matches, AtWork, Once
<1>6. Stages /\ Polled /\ OwnTokens => (Stages /\ Polled /\ OwnTokens)'
    BY <1>1, <1>2 DEF Stages, Polled, OwnTokens, Out, Aborted, AutoDue
<1> QED
    BY <1>1, <1>4, <1>5, <1>6 DEF WizInd

\* An emptied wizard knows nothing of what is out: it may only be emptied then.
LEMMA RestartInd == ASSUME WizInd, Restart PROVE WizInd'
<1>1. /\ UNCHANGED <<works, answers, accounts, jobs>> /\ WizTypes
      /\ wiz' = Empty /\ wiz.phase \in {"Error", "Done"}
      /\ strayed' = (strayed \/ Out(CodeKinds) \/ Out({"poll"}))
    BY Strays DEF WizInd, Restart, Reset
<1>2. /\ wiz'.phase = "Credentials" /\ wiz'.client = NoWUser /\ ~wiz'.confirm /\ ~wiz'.polling
      /\ wiz' \in Wizards /\ strayed' \in BOOLEAN
    BY <1>1 DEF Empty, Wizards, Users, WizTypes
<1>3. WizTypes'
    BY <1>1, <1>2 DEF WizTypes
<1>4. CASE strayed \/ Out(CodeKinds) \/ Out({"poll"})
    BY <1>1, <1>3, <1>4 DEF WizInd
<1>5. CASE Told /\ Stages /\ Polled /\ OwnTokens /\ ~Out(CodeKinds) /\ ~Out({"poll"})
  <2>1. ~Out({"begin"})
      BY <1>1, <1>5 DEF Stages
  <2>2. \A kinds : Out(kinds)' <=> Out(kinds)
      BY <1>1 DEF Out
  <2>3. AtWork(works, answers) = {}
    <3>1. \A x \in AtWork(works, answers) : x.kind \in LoginKinds
      <4>1. \A i \in DOMAIN answers : answers[i] \in Replies
          BY <1>1, LenProperties, ElementOfSeq DEF WizTypes
      <4>2. \A x \in works : x \in LoginRequests
          BY <1>1 DEF WizTypes
      <4> QED
          BY <4>1, <4>2, InAtWork DEF LoginRequests, Replies
    <3> QED
        BY <3>1, <2>1, <1>5, OutHas DEF HasKind, LoginKinds, CodeKinds
  <2>4. Told'
      BY <1>1, <1>5, <2>3 DEF Told, AtWork, Once
  <2>5. (Stages /\ Polled /\ OwnTokens)'
      BY <1>1, <1>2, <1>5, <2>1, <2>2 DEF Stages, Polled, OwnTokens, Aborted, AutoDue
  <2> QED
      BY <1>3, <2>4, <2>5 DEF WizInd
<1> QED
    BY <1>4, <1>5 DEF WizInd

\* The frame that finds a wait without a poll starts one.
LEMMA DrawPollInd == ASSUME WizInd, DrawPoll PROVE WizInd'
<1>1. /\ wiz \in Wizards /\ UNCHANGED <<answers, accounts, strayed>> /\ WizTypes
      /\ wiz' = [wiz EXCEPT !.polling = TRUE] /\ ~wiz.polling
      /\ StartWork("poll", wiz.client, FALSE)
      /\ wiz.phase = "Polling" \/ (wiz.phase = "GuardWait" /\ wiz.confirm)
      /\ wiz.client \in Users
  <2>1. wiz \in Wizards /\ WizTypes /\ wiz.client \in Users
      BY DEF WizInd, WizTypes, Wizards
  <2>2. PollDue /\ LaunchPoll(wiz) /\ UNCHANGED <<answers, accounts, strayed>>
      BY DEF DrawPoll
  <2>3. ~wiz.polling /\ (wiz.phase = "Polling" \/ (wiz.phase = "GuardWait" /\ wiz.confirm))
      BY <2>2 DEF PollDue
  <2>4. wiz' = [wiz EXCEPT !.polling = TRUE] /\ StartWork("poll", wiz.client, FALSE)
      BY <2>2, <2>3 DEF LaunchPoll
  <2> QED
      BY <2>1, <2>2, <2>3, <2>4
<1>2. /\ wiz'.phase = wiz.phase /\ wiz'.client = wiz.client /\ wiz'.secret = wiz.secret
      /\ wiz'.account = wiz.account /\ wiz'.confirm = wiz.confirm /\ wiz'.busy = wiz.busy
      /\ wiz'.polling /\ wiz'.autoSent = wiz.autoSent /\ wiz'.code = wiz.code
    BY <1>1 DEF Wizards
<1>3. wiz' \in Wizards
    BY <1>1 DEF Wizards
<1>4. /\ works' \subseteq LoginRequests /\ IsFiniteSet(works')
      /\ Len(answers') + Cardinality(works') <= jobs' /\ jobs' \in 0 .. MaxJobs
      /\ \A kinds : Out(kinds)' <=> Out(kinds) \/ "poll" \in kinds
      /\ \A kinds : Once(works, answers, kinds) /\ ("poll" \in kinds => ~Out(kinds))
                     => Once(works, answers, kinds)'
      /\ \A x \in AtWork(works, answers)' :
            \/ x \in AtWork(works, answers)
            \/ x.kind = "poll" /\ x.client = wiz.client /\ x.confirm = FALSE
    BY <1>1, StartWorkSends DEF LoginKinds
<1>5. WizTypes'
    BY <1>1, <1>3, <1>4 DEF WizTypes
<1>6. CASE strayed
    BY <1>1, <1>5, <1>6 DEF WizInd
<1>7. CASE Told /\ Stages /\ Polled /\ OwnTokens
  <2>1. ~Out({"begin"}) /\ ~Out({"poll"})
      BY <1>1, <1>7 DEF Stages, Polled
  <2>2. (Out(CodeKinds)' <=> Out(CodeKinds)) /\ ~Out({"begin"})' /\ Out({"poll"})'
      BY <1>4, <2>1 DEF CodeKinds
  <2>3. Told'
      BY <1>1, <1>2, <1>4, <1>7, <2>1 DEF Told, Matches, CodeKinds
  <2>4. wiz.phase = "Polling" => ~Out(CodeKinds)
      BY <1>7 DEF Stages
  <2>5. Stages'
      BY <1>1, <1>2, <1>7, <2>2, <2>4 DEF Stages, AutoDue
  <2>6. Polled' /\ OwnTokens'
      BY <1>1, <1>2, <1>7, <2>2 DEF Polled, OwnTokens, Aborted
  <2> QED
      BY <1>5, <2>3, <2>5, <2>6 DEF WizInd
<1> QED
    BY <1>6, <1>7 DEF WizInd


-------------------------------------------------------------------------------
(* Steam's answers and the callbacks. *)

\* What Steam answers is about the session it was asked about.
LEMMA SteamAnswersInd == ASSUME WizInd, SteamAnswers PROVE WizInd'
<1>1. WizTypes /\ UNCHANGED <<wiz, accounts, jobs, strayed>>
    BY DEF WizInd, SteamAnswers
<1>2. PICK w \in works :
        /\ works' = works \ {w}
        /\ \E a \in (IF w.kind = "begin" THEN BeginSession(w)
                     ELSE IF w.kind = "poll" THEN PollSession(w) ELSE SubmitGuardCode(w)) :
              answers' = Append(answers, a)
    BY DEF SteamAnswers
<1>3. PICK a \in (IF w.kind = "begin" THEN BeginSession(w)
                  ELSE IF w.kind = "poll" THEN PollSession(w) ELSE SubmitGuardCode(w)) :
              answers' = Append(answers, a)
    BY <1>2
<1>4. w \in LoginRequests /\ w.kind \in LoginKinds /\ w.client \in Users /\ w.confirm \in BOOLEAN
    BY <1>1 DEF WizTypes, LoginRequests
<1>5. Fails(w) \in Replies /\ [Fails(w) EXCEPT !.ok = TRUE] \in Replies
    BY <1>4 DEF Fails, Replies
<1>6. a \in Replies /\ a.kind = w.kind /\ a.client = w.client
      /\ (w.kind # "begin" => a.confirm = w.confirm)
  <2>1. CASE w.kind = "begin"
    <3>1. CASE a = Fails(w)
        BY <2>1, <3>1, <1>5 DEF Fails
    <3>2. CASE a \in [kind : {"begin"}, ok : {TRUE}, client : {w.client}, confirm : BOOLEAN,
                      code : {"None", "Device", "Email"}]
        BY <2>1, <3>2, <1>4 DEF Replies, LoginKinds
    <3> QED
        BY <1>3, <2>1, <3>1, <3>2 DEF BeginSession
  <2>2. CASE w.kind # "begin"
    <3>1. a \in {Fails(w), [Fails(w) EXCEPT !.ok = TRUE]}
        BY <1>3, <2>2 DEF PollSession, SubmitGuardCode
    <3>2. a \in Replies
        BY <3>1, <1>5
    <3>3. Fails(w).kind = w.kind /\ Fails(w).client = w.client /\ Fails(w).confirm = w.confirm
        BY DEF Fails
    <3>4. LET f == [Fails(w) EXCEPT !.ok = TRUE]
          IN  f.kind = w.kind /\ f.client = w.client /\ f.confirm = w.confirm
        BY DEF Fails
    <3> QED
        BY <2>2, <3>1, <3>2, <3>3, <3>4
  <2> QED
      BY <2>1, <2>2
<1>7. /\ answers' \in Seq(Replies) /\ Len(answers') = Len(answers) + 1
      /\ AtWork(works', answers') \subseteq AtWork(works, answers) \cup {a}
  <2>1. answers \in Seq(Replies) /\ w \in works /\ a \in Replies /\ a.kind = w.kind
      BY <1>1, <1>6 DEF WizTypes
  <2>2. Append(answers, a) \in Seq(Replies) /\ Len(Append(answers, a)) = Len(answers) + 1
      BY <2>1, AppendProperties
  <2>3. AtWork(works \ {w}, Append(answers, a)) \subseteq AtWork(works, answers) \cup {a}
      BY <2>1, Answered
  <2> QED
      BY <2>2, <2>3, <1>2, <1>3
<1>8. ASSUME NEW kinds
      PROVE  /\ Out(kinds)' <=> Out(kinds)
             /\ Once(works, answers, kinds) => Once(works, answers, kinds)'
  <2>1. Out(kinds) <=> HasKind(works, answers, kinds)
      BY OutHas
  <2>2. Out(kinds)' <=> HasKind(works', answers', kinds)
      BY DEF Out, HasKind, AtWork
  <2>3. Once(works, answers, kinds)' <=> Once(works', answers', kinds)
      OBVIOUS
  <2>4. answers \in Seq(Replies) /\ w \in works /\ a \in Replies /\ a.kind = w.kind
      BY <1>1, <1>6 DEF WizTypes
  <2>5. /\ Once(works, answers, kinds) => Once(works \ {w}, Append(answers, a), kinds)
        /\ HasKind(works \ {w}, Append(answers, a), kinds) <=> HasKind(works, answers, kinds)
      BY <2>4, AnsweredOut
  <2> QED
      BY <2>1, <2>2, <2>3, <2>5, <1>2, <1>3
<1>9. WizTypes'
  <2>1. IsFiniteSet(works) /\ Cardinality(works) \in Nat /\ Len(answers) \in Nat
      BY <1>1, FS_CardinalityType, LenProperties DEF WizTypes
  <2>2. IsFiniteSet(works') /\ Cardinality(works') = Cardinality(works) - 1
      BY <2>1, <1>2, FS_RemoveElement
  <2>3. Len(answers') + Cardinality(works') <= jobs'
      BY <2>1, <2>2, <1>1, <1>7 DEF WizTypes
  <2> QED
      BY <2>2, <2>3, <1>1, <1>2, <1>7 DEF WizTypes
<1>10. Told => Told'
  <2> SUFFICES ASSUME Told PROVE Told'
      OBVIOUS
  <2>1. \A x \in AtWork(works, answers) : Matches(x)
      BY DEF Told
  <2>2. Matches(w)
      BY <2>1, InAtWork
  <2>3. Matches(a)
      BY <2>2, <1>6 DEF Matches, CodeKinds
  <2>4. \A x \in AtWork(works', answers') : Matches(x)
      BY <2>1, <2>3, <1>7
  <2>5. \A x : Matches(x)' <=> Matches(x)
      BY <1>1 DEF Matches
  <2>6. \A x \in AtWork(works, answers)' : Matches(x)'
      BY <2>4, <2>5
  <2> QED
      BY <2>6, <1>8 DEF Told
<1>11. Stages /\ Polled /\ OwnTokens => (Stages /\ Polled /\ OwnTokens)'
    BY <1>1, <1>8 DEF Stages, Polled, OwnTokens, Aborted, AutoDue
<1> QED
    BY <1>1, <1>9, <1>10, <1>11 DEF WizInd

\* The answer that begins a session names the account the button was pressed for.
LEMMA BeginDoneInd == ASSUME WizInd, BeginDone PROVE WizInd'
<1> DEFINE a == Head(answers)
<1>1. /\ WizTypes /\ Next1({"begin"}) /\ wiz' = Begun(a)
      /\ UNCHANGED <<works, accounts, jobs, strayed>>
    BY DEF WizInd, BeginDone
<1>2. /\ answers' \in Seq(Replies) /\ Len(answers') + Cardinality(works') <= jobs'
      /\ a \in Replies /\ a \in AtWork(works, answers) /\ a.kind = "begin"
      /\ \A kinds : /\ Out(kinds)' => Out(kinds)
                    /\ Out(kinds) /\ a.kind \notin kinds => Out(kinds)'
                    /\ Once(works, answers, kinds) => Once(works, answers, kinds)'
                    /\ Once(works, answers, kinds) /\ a.kind \in kinds => ~Out(kinds)'
                    /\ a.kind \in kinds => Out(kinds)
      /\ AtWork(works, answers)' \subseteq AtWork(works, answers)
    BY <1>1, Next1Takes
<1>3. wiz \in Wizards /\ a.client \in Users /\ a.confirm \in BOOLEAN
      /\ a.code \in {"None", "Device", "Email"} /\ a.ok \in BOOLEAN
    BY <1>1, <1>2 DEF WizTypes, Replies
<1> HIDE DEF a
<1>4. ASSUME ~a.ok
      PROVE  /\ wiz' = [wiz EXCEPT !.busy = FALSE, !.phase = "Error"]
             /\ wiz'.phase = "Error" /\ wiz'.client = wiz.client /\ wiz'.account = wiz.account
             /\ wiz'.confirm = wiz.confirm /\ wiz'.polling = wiz.polling
             /\ wiz' \in Wizards
  <2>1. wiz' = [wiz EXCEPT !.busy = FALSE, !.phase = "Error"]
      BY <1>1, <1>4 DEF Begun
  <2>2. wiz' \in Wizards
      BY <2>1, <1>3 DEF Wizards
  <2> QED
      BY <2>1, <2>2, <1>3 DEF Wizards
<1>5. ASSUME a.ok
      PROVE  /\ wiz'.phase = IF a.confirm \/ a.code # "None" THEN "GuardWait" ELSE "Polling"
             /\ wiz'.client = a.client /\ wiz'.account = [login |-> a.client, sid |-> a.client]
             /\ wiz'.confirm = a.confirm /\ wiz'.polling = wiz.polling
             /\ wiz' \in Wizards
  <2> DEFINE next == IF a.confirm \/ a.code # "None" THEN "GuardWait" ELSE "Polling"
  <2>1. wiz' = [wiz EXCEPT !.busy = FALSE, !.client = a.client, !.confirm = a.confirm,
                           !.code = a.code, !.account = [login |-> a.client, sid |-> a.client],
                           !.phase = next]
      BY <1>1, <1>5 DEF Begun, SignedFor
  <2>2. next \in {"GuardWait", "Polling"} /\ [login |-> a.client, sid |-> a.client] \in [login : Users, sid : Users]
      BY <1>3
  <2> HIDE DEF next
  <2>3. wiz' \in Wizards
      BY <2>1, <2>2, <1>3 DEF Wizards
  <2>4. /\ wiz'.phase = next /\ wiz'.client = a.client
        /\ wiz'.account = [login |-> a.client, sid |-> a.client]
        /\ wiz'.confirm = a.confirm /\ wiz'.polling = wiz.polling
      BY <2>1, <1>3 DEF Wizards
  <2> QED
      BY <2>3, <2>4 DEF next
<1>6. WizTypes'
    BY <1>1, <1>2, <1>3, <1>4, <1>5 DEF WizTypes
<1>7. CASE strayed
    BY <1>1, <1>6, <1>7 DEF WizInd
<1>8. CASE Told /\ Stages /\ Polled /\ OwnTokens
  <2>1. /\ wiz.phase = "Credentials" /\ ~wiz.polling /\ ~wiz.confirm
        /\ ~Out(CodeKinds) /\ ~Out({"poll"}) /\ a.client \in WUser /\ wiz.client = NoWUser
    <3>1. Out({"begin"}) /\ Matches(a)
        BY <1>2, <1>8 DEF Told
    <3> QED
        BY <1>2, <1>8, <3>1 DEF Stages, Matches
  <2>2. ~Out({"begin"})' /\ ~Out(CodeKinds)' /\ ~Out({"poll"})'
      BY <1>2, <1>8, <2>1 DEF Told
  <2>3. \A x \in AtWork(works, answers)' : FALSE
    <3>1. \A x \in AtWork(works, answers)' : x.kind \in LoginKinds
      <4>1. \A i \in DOMAIN answers' : answers'[i] \in Replies
          BY <1>2, LenProperties, ElementOfSeq
      <4>2. \A x \in works' : x \in LoginRequests
          BY <1>6 DEF WizTypes
      <4> QED
          BY <4>1, <4>2, InAtWork DEF LoginRequests, Replies, AtWork
    <3>2. \A kinds : Out(kinds)' <=> \E x \in AtWork(works, answers)' : x.kind \in kinds
        BY DEF Out, AtWork
    <3> QED
        BY <3>1, <3>2, <2>2 DEF LoginKinds, CodeKinds
  <2>4. Told'
      BY <1>2, <1>8, <2>3 DEF Told
  <2>5. CASE ~a.ok
    <3>1. Stages'
        BY <1>4, <1>8, <2>1, <2>2, <2>5 DEF Stages, AutoDue
    <3>2. Polled' /\ OwnTokens'
        BY <1>1, <1>4, <1>8, <2>1, <2>2, <2>5 DEF Polled, OwnTokens
    <3> QED
        BY <1>6, <2>4, <3>1, <3>2 DEF WizInd
  <2>6. CASE a.ok
    <3>1. Stages'
        BY <1>5, <1>8, <2>1, <2>2, <2>6 DEF Stages, AutoDue
    <3>2. Polled' /\ OwnTokens'
        BY <1>1, <1>5, <1>8, <2>1, <2>2, <2>6 DEF Polled, OwnTokens
    <3> QED
        BY <1>6, <2>4, <3>1, <3>2 DEF WizInd
  <2> QED
      BY <1>3, <2>5, <2>6
<1> QED
    BY <1>7, <1>8 DEF WizInd


\* A callback that sends the next request.
LEMMA Next1Sends ==
    ASSUME WizTypes, NEW ks, Next1(ks), NEW k \in LoginKinds, NEW c \in Users, NEW b \in BOOLEAN,
           StartWork(k, c, b)
    PROVE  /\ answers' \in Seq(Replies) /\ works' \subseteq LoginRequests /\ IsFiniteSet(works')
           /\ Len(answers') + Cardinality(works') <= jobs' /\ jobs' \in 0 .. MaxJobs
           /\ \A kinds : /\ Out(kinds)' => Out(kinds) \/ k \in kinds
                         /\ Out(kinds) /\ Head(answers).kind \notin kinds => Out(kinds)'
                         /\ k \in kinds => Out(kinds)'
                         /\ Once(works, answers, kinds) /\ (k \in kinds => ~Out(kinds))
                               => Once(works, answers, kinds)'
                         /\ /\ Once(works, answers, kinds) /\ Head(answers).kind \in kinds
                            /\ k \notin kinds
                            => ~Out(kinds)'
           /\ \A x \in AtWork(works, answers)' :
                 x \in AtWork(works, answers) \/ (x.kind = k /\ x.client = c /\ x.confirm = b)
<1> DEFINE r == [n |-> jobs', kind |-> k, client |-> c, confirm |-> b]
<1>1. r \in LoginRequests /\ r.kind = k /\ r.client = c /\ r.confirm = b
    BY DEF LoginRequests, WizTypes, StartWork
<1>2. /\ works' = works \cup {r} /\ jobs' = jobs + 1 /\ jobs < MaxJobs
      /\ answers \in Seq(Replies) /\ answers # <<>> /\ answers' = Tail(answers)
    BY DEF StartWork, WizTypes, Next1
<1> HIDE DEF r
<1>3. works' \subseteq LoginRequests /\ jobs' \in 0 .. MaxJobs
    BY <1>1, <1>2 DEF WizTypes
<1>4. /\ IsFiniteSet(works') /\ Cardinality(works') \in Nat /\ Cardinality(works) \in Nat
      /\ Cardinality(works') <= Cardinality(works) + 1
  <2>1. IsFiniteSet(works) /\ Cardinality(works) \in Nat
      BY FS_CardinalityType DEF WizTypes
  <2>2. /\ IsFiniteSet(works \cup {r})
        /\ \/ Cardinality(works \cup {r}) = Cardinality(works)
           \/ Cardinality(works \cup {r}) = Cardinality(works) + 1
      BY <2>1, FS_AddElement
  <2> QED
      BY <2>1, <2>2, <1>2
<1>5. /\ answers' \in Seq(Replies) /\ Len(answers') = Len(answers) - 1 /\ Len(answers) \in Nat
      /\ AtWork(works, Tail(answers)) \subseteq AtWork(works, answers)
    BY <1>2, Taken, LenProperties
<1>6. Len(answers') + Cardinality(works') <= jobs'
    BY <1>2, <1>4, <1>5 DEF WizTypes
<1>7. ASSUME NEW kinds
      PROVE  /\ Out(kinds)' => Out(kinds) \/ k \in kinds
             /\ Out(kinds) /\ Head(answers).kind \notin kinds => Out(kinds)'
             /\ k \in kinds => Out(kinds)'
             /\ Once(works, answers, kinds) /\ (k \in kinds => ~Out(kinds))
                   => Once(works, answers, kinds)'
             /\ Once(works, answers, kinds) /\ Head(answers).kind \in kinds /\ k \notin kinds
                   => ~Out(kinds)'
  <2>1. Out(kinds) <=> HasKind(works, answers, kinds)
      BY OutHas
  <2>2. Out(kinds)' <=> HasKind(works \cup {r}, Tail(answers), kinds)
      BY <1>2 DEF Out, HasKind, AtWork
  <2>3. Once(works, answers, kinds)' <=> Once(works \cup {r}, Tail(answers), kinds)
      BY <1>2
  <2>4. /\ HasKind(works \cup {r}, Tail(answers), kinds)
              <=> HasKind(works, Tail(answers), kinds) \/ k \in kinds
        /\ Once(works, Tail(answers), kinds) /\ (k \in kinds => ~HasKind(works, Tail(answers), kinds))
              => Once(works \cup {r}, Tail(answers), kinds)
      BY <1>1, Sent
  <2>5. /\ Once(works, answers, kinds) => Once(works, Tail(answers), kinds)
        /\ HasKind(works, Tail(answers), kinds) => HasKind(works, answers, kinds)
        /\ Head(answers).kind \notin kinds /\ HasKind(works, answers, kinds)
              => HasKind(works, Tail(answers), kinds)
        /\ Head(answers).kind \in kinds /\ Once(works, answers, kinds)
              => ~HasKind(works, Tail(answers), kinds)
      BY <1>2, Taken
  <2> QED
      BY <2>1, <2>2, <2>3, <2>4, <2>5
<1>8. AtWork(works, answers)' = AtWork(works, Tail(answers)) \cup {r}
    BY <1>2 DEF AtWork
<1>9. \A x \in AtWork(works, answers)' :
         x \in AtWork(works, answers) \/ (x.kind = k /\ x.client = c /\ x.confirm = b)
    BY <1>1, <1>5, <1>8
<1> QED
    BY <1>3, <1>4, <1>5, <1>6, <1>7, <1>9

\* A code's answer unlocks the page, and ends the attempt or goes on to the poll.
LEMMA CodeDoneInd == ASSUME WizInd, CodeDone PROVE WizInd'
<1> DEFINE a == Head(answers)
           w == [wiz EXCEPT !.busy = FALSE]
<1>1. /\ WizTypes /\ Next1(CodeKinds) /\ UNCHANGED <<accounts, strayed>>
    BY DEF WizInd, CodeDone, CodeKinds
<1>2. answers \in Seq(Replies) /\ answers # <<>> /\ a.kind \in CodeKinds
    BY <1>1 DEF WizTypes, Next1
<1>3. /\ a \in Replies /\ a \in AtWork(works, answers)
      /\ a.ok \in BOOLEAN /\ a.confirm \in BOOLEAN
  <2>1. a \in Replies /\ a \in AtWork(works, answers)
      BY <1>2, Taken
  <2> QED
      BY <2>1 DEF Replies
<1>4. \/ UNCHANGED <<works, jobs>> /\ wiz' = w
      \/ UNCHANGED <<works, jobs>> /\ ~a.confirm
            /\ \E ph \in {"Error", "Polling"} : (ph = "Polling" => a.ok) /\ wiz' = [w EXCEPT !.phase = ph]
      \/ a.confirm /\ a.kind = "code" /\ ~w.polling
            /\ wiz' = [w EXCEPT !.polling = TRUE] /\ StartWork("poll", w.client, FALSE)
  <2> HIDE DEF w
  <2>1. LET a1 == Head(answers)
        IN  CASE ~a1.ok -> /\ wiz' = IF a1.confirm \/ a1.kind = "auto" THEN w
                                     ELSE [w EXCEPT !.phase = "Error"]
                           /\ UNCHANGED <<works, jobs>>
              [] a1.ok /\ ~a1.confirm -> wiz' = [w EXCEPT !.phase = "Polling"] /\ UNCHANGED <<works, jobs>>
              [] a1.ok /\ a1.confirm /\ a1.kind = "code" -> LaunchPoll(w)
              [] a1.ok /\ a1.confirm /\ a1.kind = "auto" -> wiz' = w /\ UNCHANGED <<works, jobs>>
      BY DEF CodeDone, w
  <2>2. CASE ~a.ok
      BY <2>1, <2>2, <1>2, <1>3
  <2>3. CASE a.ok /\ ~a.confirm
      BY <2>1, <2>3, <1>2, <1>3
  <2>4. CASE a.ok /\ a.confirm /\ a.kind = "code"
    <3>1. LaunchPoll(w)
        BY <2>1, <2>4
    <3> QED
        BY <3>1, <2>4 DEF LaunchPoll
  <2>5. CASE a.ok /\ a.confirm /\ a.kind = "auto"
      BY <2>1, <2>5, <1>2, <1>3
  <2> QED
      BY <2>2, <2>3, <2>4, <2>5, <1>2, <1>3 DEF CodeKinds
<1>5. /\ w \in Wizards /\ w.phase = wiz.phase /\ w.client = wiz.client /\ w.account = wiz.account
      /\ w.confirm = wiz.confirm /\ w.polling = wiz.polling /\ w.autoSent = wiz.autoSent
      /\ w.code = wiz.code /\ w.secret = wiz.secret /\ wiz.client \in Users
      /\ wiz.phase \in {"Credentials", "GuardWait", "Polling", "Done", "Error"}
    BY <1>1 DEF WizTypes, Wizards
<1> HIDE DEF a, w
<1>6. Told /\ Stages =>
         /\ a.client = wiz.client /\ a.confirm = wiz.confirm /\ Out(CodeKinds) /\ ~Out({"begin"})
         /\ wiz.phase \notin {"Credentials", "Polling"} /\ wiz.client # NoWUser
         /\ (~wiz.confirm => wiz.phase # "Done" /\ ~wiz.polling)
         /\ Once(works, answers, CodeKinds) /\ Once(works, answers, {"poll"})
         /\ Once(works, answers, {"begin"})
  <2> SUFFICES ASSUME Told, Stages
               PROVE  /\ a.client = wiz.client /\ a.confirm = wiz.confirm /\ Out(CodeKinds) /\ ~Out({"begin"})
         /\ wiz.phase \notin {"Credentials", "Polling"} /\ wiz.client # NoWUser
         /\ (~wiz.confirm => wiz.phase # "Done" /\ ~wiz.polling)
         /\ Once(works, answers, CodeKinds) /\ Once(works, answers, {"poll"})
         /\ Once(works, answers, {"begin"})
      OBVIOUS
  <2>1. Out(CodeKinds) /\ Matches(a)
      BY <1>2, <1>3, OutHas DEF Told, HasKind
  <2>2. a.client = wiz.client /\ a.confirm = wiz.confirm
      BY <2>1, <1>2 DEF Matches, CodeKinds
  <2>3. wiz.phase \notin {"Credentials", "Polling"} /\ wiz.client # NoWUser
        /\ (~wiz.confirm => wiz.phase # "Done" /\ ~wiz.polling) /\ ~Out({"begin"})
      BY <2>1 DEF Stages
  <2> QED
      BY <2>1, <2>2, <2>3 DEF Told
<1>7. ASSUME UNCHANGED <<works, jobs>>
      PROVE  /\ answers' \in Seq(Replies) /\ Len(answers') + Cardinality(works') <= jobs'
             /\ AtWork(works, answers)' \subseteq AtWork(works, answers)
             /\ \A kinds : Once(works, answers, kinds) => Once(works, answers, kinds)'
             /\ Out({"poll"})' <=> Out({"poll"})
             /\ Out({"begin"})' => Out({"begin"})
             /\ Once(works, answers, CodeKinds) => ~Out(CodeKinds)'
    BY <1>1, <1>2, <1>7, Next1Takes DEF CodeKinds, a
<1>8. CASE UNCHANGED <<works, jobs>> /\ wiz' = w
  <2>1. WizTypes'
      BY <1>1, <1>5, <1>7, <1>8 DEF WizTypes
  <2>2. CASE Told /\ Stages /\ Polled /\ OwnTokens
    <3>1. Told'
        BY <1>5, <1>7, <1>8, <2>2 DEF Told, Matches
    <3>2. Stages'
        BY <1>5, <1>6, <1>7, <1>8, <2>2 DEF Stages, AutoDue
    <3>3. Polled' /\ OwnTokens'
        BY <1>1, <1>5, <1>7, <1>8, <2>2 DEF Polled, OwnTokens, Aborted
    <3> QED
        BY <2>1, <3>1, <3>2, <3>3 DEF WizInd
  <2> QED
      BY <1>1, <2>1, <2>2 DEF WizInd
<1>9. CASE /\ UNCHANGED <<works, jobs>> /\ ~a.confirm
           /\ \E ph \in {"Error", "Polling"} : (ph = "Polling" => a.ok) /\ wiz' = [w EXCEPT !.phase = ph]
  <2>1. PICK ph \in {"Error", "Polling"} : wiz' = [w EXCEPT !.phase = ph]
      BY <1>9
  <2>2. /\ wiz' \in Wizards /\ wiz'.phase = ph /\ wiz'.client = wiz.client
        /\ wiz'.account = wiz.account /\ wiz'.confirm = wiz.confirm /\ wiz'.polling = wiz.polling
      BY <2>1, <1>5 DEF Wizards
  <2>3. WizTypes'
      BY <1>1, <1>7, <1>9, <2>2 DEF WizTypes
  <2>4. CASE Told /\ Stages /\ Polled /\ OwnTokens
    <3>1. Told'
        BY <1>7, <1>9, <2>2, <2>4 DEF Told, Matches
    <3>2. ~Out(CodeKinds)' /\ ~Out({"begin"})' /\ ~wiz.polling /\ ~wiz.confirm /\ wiz.client # NoWUser
        BY <1>6, <1>7, <1>9, <2>4
    <3>3. Stages'
        BY <1>6, <2>2, <2>4, <3>2 DEF Stages, AutoDue
    <3>4. Polled' /\ OwnTokens'
        BY <1>1, <1>7, <1>9, <2>2, <2>4, <3>2 DEF Polled, OwnTokens
    <3> QED
        BY <2>3, <3>1, <3>3, <3>4 DEF WizInd
  <2> QED
      BY <1>1, <2>3, <2>4 DEF WizInd
<1>10. CASE /\ a.confirm /\ a.kind = "code" /\ ~w.polling
            /\ wiz' = [w EXCEPT !.polling = TRUE] /\ StartWork("poll", w.client, FALSE)
  <2>1. /\ wiz' \in Wizards /\ wiz'.phase = wiz.phase /\ wiz'.client = wiz.client
        /\ wiz'.account = wiz.account /\ wiz'.confirm = wiz.confirm /\ wiz'.polling
      BY <1>10, <1>5 DEF Wizards
  <2>2. /\ answers' \in Seq(Replies) /\ works' \subseteq LoginRequests /\ IsFiniteSet(works')
        /\ Len(answers') + Cardinality(works') <= jobs' /\ jobs' \in 0 .. MaxJobs
        /\ \A kinds : /\ Out(kinds)' => Out(kinds) \/ "poll" \in kinds
                      /\ "poll" \in kinds => Out(kinds)'
                      /\ Once(works, answers, kinds) /\ ("poll" \in kinds => ~Out(kinds))
                            => Once(works, answers, kinds)'
                      /\ /\ Once(works, answers, kinds) /\ a.kind \in kinds /\ "poll" \notin kinds
                         => ~Out(kinds)'
        /\ \A x \in AtWork(works, answers)' :
              \/ x \in AtWork(works, answers)
              \/ x.kind = "poll" /\ x.client = wiz.client /\ x.confirm = FALSE
    <3>1. "poll" \in LoginKinds /\ w.client \in Users /\ FALSE \in BOOLEAN /\ w.client = wiz.client
        BY <1>5 DEF LoginKinds
    <3> QED
        BY <3>1, <1>1, <1>10, Next1Sends DEF a
  <2>3. WizTypes'
      BY <1>1, <2>1, <2>2 DEF WizTypes
  <2>4. CASE Told /\ Stages /\ Polled /\ OwnTokens
    <3>1. ~wiz.polling /\ ~Out({"poll"}) /\ ~Out({"begin"})
        BY <1>5, <1>6, <1>10, <2>4 DEF Polled
    <3>2. ~Out(CodeKinds)' /\ ~Out({"begin"})' /\ Out({"poll"})'
        BY <1>2, <1>6, <2>2, <2>4, <3>1 DEF CodeKinds
    <3>3. Told'
      <4>1. Once(works, answers, CodeKinds)' /\ Once(works, answers, {"poll"})'
            /\ Once(works, answers, {"begin"})'
          BY <1>6, <2>2, <2>4, <3>1 DEF CodeKinds
      <4>2. \A x \in AtWork(works, answers) : Matches(x)
          BY <2>4 DEF Told
      <4>3. \A x \in AtWork(works, answers)' : Matches(x)'
          BY <4>2, <2>1, <2>2 DEF Matches, CodeKinds
      <4> QED
          BY <4>1, <4>3 DEF Told
    <3>4. Stages'
        BY <1>6, <1>10, <2>1, <2>4, <3>1, <3>2 DEF Stages, AutoDue
    <3>5. Polled' /\ OwnTokens'
        BY <1>1, <2>1, <2>4, <3>2 DEF Polled, OwnTokens
    <3> QED
        BY <2>3, <3>3, <3>4, <3>5 DEF WizInd
  <2> QED
      BY <1>1, <2>3, <2>4 DEF WizInd
<1> QED
    BY <1>4, <1>8, <1>9, <1>10


\* Tokens go to the account the wizard signed in, found by its Steam ID or its login
\* or made from the wizard's own copy of it.
LEMMA StoreKeeps ==
    ASSUME WizTypes, NEW owner \in Users, StoreTokens(owner)
    PROVE  /\ accounts' \subseteq Accounts
           /\ wiz' \in Wizards /\ wiz'.phase = "Done" /\ wiz'.client = wiz.client
           /\ wiz'.confirm = wiz.confirm /\ ~wiz'.polling
           /\ OwnTokens /\ owner # NoWUser /\ wiz.account.sid = owner /\ wiz.account.login = owner
                 => OwnTokens'
<1>1. wiz \in Wizards /\ wiz.account.login \in Users /\ wiz.account.sid \in Users
      /\ accounts \subseteq Accounts
    BY DEF WizTypes, Wizards
<1>2. CASE Existing # {}
  <2>1. PICK x \in Existing :
          accounts' = (accounts \ {x}) \cup {[x EXCEPT !.sid = wiz.account.sid, !.owner = owner]}
      BY <1>2 DEF StoreTokens
  <2>2. /\ x \in accounts /\ x \in Accounts
        /\ x.sid = wiz.account.sid \/ x.login = wiz.account.login
      BY <1>1 DEF Existing
  <2> DEFINE y == [x EXCEPT !.sid = wiz.account.sid, !.owner = owner]
  <2>3. y \in Accounts
      BY <1>1, <2>2 DEF Accounts
  <2>4. y.sid = wiz.account.sid /\ y.owner = owner /\ y.login = x.login
      BY <2>2 DEF Accounts
  <2> HIDE DEF y
  <2>5. wiz' = [wiz EXCEPT !.polling = FALSE, !.busy = FALSE, !.phase = "Done"]
      BY <1>2 DEF StoreTokens
  <2>6. /\ wiz' \in Wizards
      BY <1>1, <2>5 DEF Wizards
  <2>7. /\ wiz'.phase = "Done" /\ wiz'.client = wiz.client
        /\ wiz'.confirm = wiz.confirm /\ ~wiz'.polling
      BY <1>1, <2>5 DEF Wizards
  <2>8. accounts' = (accounts \ {x}) \cup {y}
      BY <2>1 DEF y
  <2>9. OwnTokens /\ owner # NoWUser /\ wiz.account.sid = owner /\ wiz.account.login = owner
           => OwnTokens'
      BY <2>2, <2>4, <2>8 DEF OwnTokens
  <2> QED
      BY <1>1, <2>3, <2>6, <2>7, <2>8, <2>9
<1>3. CASE Existing = {}
  <2> DEFINE y == [login |-> wiz.account.login, sid |-> wiz.account.sid, owner |-> owner]
  <2>1. /\ accounts' = accounts \cup {y}
        /\ wiz' = [wiz EXCEPT !.polling = FALSE, !.busy = FALSE, !.phase = "Done",
                              !.account.login = NoWUser, !.secret = FALSE]
      BY <1>3 DEF StoreTokens
  <2>2. y \in Accounts
      BY <1>1 DEF Accounts
  <2>3. y.login = wiz.account.login /\ y.sid = wiz.account.sid /\ y.owner = owner
      OBVIOUS
  <2> HIDE DEF y
  <2>4. wiz' \in Wizards
      BY <1>1, <2>1 DEF Wizards, Users
  <2>5. /\ wiz'.phase = "Done" /\ wiz'.client = wiz.client
        /\ wiz'.confirm = wiz.confirm /\ ~wiz'.polling
      BY <1>1, <2>1 DEF Wizards
  <2>6. OwnTokens /\ owner # NoWUser /\ wiz.account.sid = owner /\ wiz.account.login = owner
           => OwnTokens'
      BY <2>1, <2>3 DEF OwnTokens
  <2> QED
      BY <1>1, <2>1, <2>2, <2>4, <2>5, <2>6
<1> QED
    BY <1>2, <1>3

LEMMA PollDoneInd == ASSUME WizInd, PollDone PROVE WizInd'
<1> DEFINE a == Head(answers)
<1>1. /\ WizTypes /\ Next1({"poll"}) /\ UNCHANGED <<works, jobs, strayed>>
      /\ \/ Aborted /\ UNCHANGED <<wiz, accounts>>
         \/ /\ ~Aborted /\ UNCHANGED accounts
            /\ wiz' = [wiz EXCEPT !.polling = FALSE, !.busy = FALSE, !.phase = "Error"]
         \/ ~Aborted /\ StoreTokens(a.client)
    BY DEF WizInd, PollDone
<1>2. /\ answers' \in Seq(Replies) /\ Len(answers') + Cardinality(works') <= jobs'
      /\ a \in Replies /\ a \in AtWork(works, answers) /\ a.kind = "poll"
      /\ \A kinds : /\ Out(kinds)' => Out(kinds)
                    /\ Out(kinds) /\ a.kind \notin kinds => Out(kinds)'
                    /\ Once(works, answers, kinds) => Once(works, answers, kinds)'
                    /\ Once(works, answers, kinds) /\ a.kind \in kinds => ~Out(kinds)'
                    /\ a.kind \in kinds => Out(kinds)
      /\ AtWork(works, answers)' \subseteq AtWork(works, answers)
    BY <1>1, Next1Takes
<1>3. wiz \in Wizards /\ a.client \in Users
      /\ wiz.phase \in {"Credentials", "GuardWait", "Polling", "Done", "Error"}
    BY <1>1, <1>2 DEF WizTypes, Replies, Wizards
<1> HIDE DEF a
<1>4. Told /\ Stages /\ Polled =>
         /\ Out({"poll"}) /\ ~Out({"poll"})' /\ wiz.polling /\ wiz.phase # "Credentials"
         /\ a.client = wiz.client
         /\ ~Out({"begin"})' /\ ~Out({"begin"}) /\ (Out(CodeKinds)' <=> Out(CodeKinds))
  <2> SUFFICES ASSUME Told, Stages, Polled
               PROVE  /\ Out({"poll"}) /\ ~Out({"poll"})' /\ wiz.polling /\ wiz.phase # "Credentials"
                      /\ a.client = wiz.client
                      /\ ~Out({"begin"})' /\ ~Out({"begin"}) /\ (Out(CodeKinds)' <=> Out(CodeKinds))
      OBVIOUS
  <2>1. Out({"poll"}) /\ ~Out({"poll"})' /\ Matches(a)
      BY <1>2 DEF Told
  <2>2. wiz.polling /\ wiz.phase # "Credentials"
      BY <2>1 DEF Polled, Stages
  <2>3. a.client = wiz.client
      BY <2>1, <1>2 DEF Matches
  <2>4. ~Out({"begin"})' /\ ~Out({"begin"})
      BY <2>2, <1>2 DEF Stages
  <2>5. Out(CodeKinds)' <=> Out(CodeKinds)
      BY <1>2 DEF CodeKinds
  <2> QED
      BY <2>1, <2>2, <2>3, <2>4, <2>5
<1>5. CASE Aborted /\ UNCHANGED <<wiz, accounts>>
  <2>1. WizTypes'
      BY <1>1, <1>2, <1>5 DEF WizTypes
  <2>2. CASE Told /\ Stages /\ Polled /\ OwnTokens
    <3>1. Told'
        BY <1>2, <1>5, <2>2 DEF Told, Matches
    <3>2. Stages'
        BY <1>4, <1>5, <2>2 DEF Stages, AutoDue
    <3>3. Polled' /\ OwnTokens'
        BY <1>4, <1>5, <2>2 DEF Polled, OwnTokens, Aborted
    <3> QED
        BY <2>1, <3>1, <3>2, <3>3 DEF WizInd
  <2> QED
      BY <1>1, <2>1, <2>2 DEF WizInd
<1>6. CASE /\ ~Aborted /\ UNCHANGED accounts
           /\ wiz' = [wiz EXCEPT !.polling = FALSE, !.busy = FALSE, !.phase = "Error"]
  <2>1. wiz' \in Wizards
      BY <1>3, <1>6 DEF Wizards
  <2>2. /\ wiz'.phase = "Error" /\ wiz'.client = wiz.client /\ wiz'.account = wiz.account
        /\ wiz'.confirm = wiz.confirm /\ ~wiz'.polling
      BY <1>3, <1>6 DEF Wizards
  <2>3. WizTypes'
      BY <1>1, <1>2, <1>6, <2>1 DEF WizTypes
  <2>4. CASE Told /\ Stages /\ Polled /\ OwnTokens
    <3>1. Told'
        BY <1>2, <2>2, <2>4 DEF Told, Matches
    <3>2. wiz.phase # "Done"
        BY <1>6 DEF Aborted
    <3>3. Stages'
        BY <1>4, <2>2, <2>4, <3>2 DEF Stages, AutoDue
    <3>4. Polled' /\ OwnTokens'
        BY <1>4, <1>6, <2>2, <2>4 DEF Polled, OwnTokens
    <3> QED
        BY <2>3, <3>1, <3>3, <3>4 DEF WizInd
  <2> QED
      BY <1>1, <2>3, <2>4 DEF WizInd
<1>7. CASE ~Aborted /\ StoreTokens(a.client)
  <2>1. /\ accounts' \subseteq Accounts
        /\ wiz' \in Wizards /\ wiz'.phase = "Done" /\ wiz'.client = wiz.client
        /\ wiz'.confirm = wiz.confirm /\ ~wiz'.polling
        /\ OwnTokens /\ a.client # NoWUser /\ wiz.account.sid = a.client
              /\ wiz.account.login = a.client => OwnTokens'
      BY <1>1, <1>3, <1>7, StoreKeeps
  <2>2. WizTypes'
      BY <1>1, <1>2, <2>1 DEF WizTypes
  <2>3. CASE Told /\ Stages /\ Polled /\ OwnTokens
    <3>1. Told'
        BY <1>2, <2>1, <2>3 DEF Told, Matches
    <3>2. /\ wiz.phase \in {"GuardWait", "Polling"} /\ wiz.phase # "Done"
        BY <1>3, <1>7 DEF Aborted
    <3>3. wiz.client # NoWUser /\ wiz.account.sid = wiz.client /\ wiz.account.login = wiz.client
        BY <2>3, <3>2 DEF Stages
    <3>4. ~wiz.confirm => ~Out(CodeKinds)
        BY <1>4, <2>3 DEF Stages
    <3>5. Stages'
        BY <1>4, <2>1, <2>3, <3>3, <3>4 DEF Stages, AutoDue
    <3>6. Polled' /\ OwnTokens'
        BY <1>4, <2>1, <2>3, <3>3 DEF Polled
    <3> QED
        BY <2>2, <3>1, <3>5, <3>6 DEF WizInd
  <2> QED
      BY <1>1, <2>2, <2>3 DEF WizInd
<1> QED
    BY <1>1, <1>5, <1>6, <1>7

-------------------------------------------------------------------------------

LEMMA WizIndInit == WizInit => WizInd
<1> SUFFICES ASSUME WizInit PROVE WizInd
    OBVIOUS
<1>1. /\ wiz = Empty /\ works = {} /\ answers = <<>> /\ jobs = 0 /\ strayed = FALSE
      /\ accounts = {[login |-> u, sid |-> u, owner |-> NoWUser] : u \in Known}
    BY DEF WizInit
<1>2. /\ wiz \in Wizards /\ wiz.phase = "Credentials" /\ wiz.client = NoWUser
      /\ ~wiz.polling /\ ~wiz.confirm
    BY <1>1 DEF Empty, Wizards, Users
<1>3. WizTypes
  <2>1. IsFiniteSet(works) /\ Cardinality(works) = 0 /\ Len(answers) = 0
        /\ answers \in Seq(Replies)
      BY <1>1, FS_EmptySet, EmptySeq, LenProperties
  <2>2. accounts \subseteq Accounts
      BY <1>1 DEF Accounts, Users
  <2>3. Len(answers) + Cardinality(works) <= jobs /\ jobs \in 0 .. MaxJobs
      BY <1>1, <2>1
  <2>4. works \subseteq LoginRequests /\ strayed \in BOOLEAN
      BY <1>1
  <2> QED
      BY <1>2, <2>1, <2>2, <2>3, <2>4 DEF WizTypes
<1>4. Told
    BY <1>1 DEF Told, Once, AtWork
<1>5. Stages /\ Polled
    BY <1>1, <1>2 DEF Stages, Polled, Out, Aborted, AutoDue
<1>6. OwnTokens
    BY <1>1 DEF OwnTokens
<1> QED
    BY <1>3, <1>4, <1>5, <1>6 DEF WizInd

LEMMA WizIndStep == WizInd /\ [WizNext]_wizVars => WizInd'
<1> SUFFICES ASSUME WizInd, [WizNext]_wizVars PROVE WizInd'
    OBVIOUS
<1>1. CASE UNCHANGED wizVars
    BY <1>1 DEF wizVars, WizInd, WizTypes, Told, Stages, Polled, OwnTokens, Matches, Once,
       AtWork, Out, Aborted, AutoDue
<1> QED
    BY <1>1, UsernameInd, SignInInd, SubmitCodeInd, CancelInd, RestartInd, DrawPollInd,
       DrawAutoCodeInd, SteamAnswersInd, BeginDoneInd, CodeDoneInd, PollDoneInd DEF WizNext

\* What the one static wizard, the workers and the posted callbacks keep true.
THEOREM WizardAlways == WizSpec => []WizInd
    BY WizIndInit, WizIndStep, PTL DEF WizSpec

\* Whatever is typed meanwhile and whichever way the sign-in is confirmed, the tokens
\* an account holds are its own (on_poll_success, find_existing_account), unless an
\* attempt was given up while a worker of it was out.
THEOREM WizardSafe == WizSpec => []WizardInv
<1>1. WizInd => WizardInv
  <2> SUFFICES ASSUME WizInd PROVE WizardInv
      OBVIOUS
  <2>1. Len(answers) + Cardinality(works) <= MaxJobs
    <3>1. Len(answers) \in Nat /\ Cardinality(works) \in Nat
        BY LenProperties, FS_CardinalityType DEF WizInd, WizTypes
    <3> QED
        BY <3>1 DEF WizInd, WizTypes
  <2>2. WizTypeOK
      BY <2>1 DEF WizInd, WizTypes, WizTypeOK, Wizards, LoginRequests, Accounts, Users, LoginKinds
  <2>3. TokensAreTheirOwn
      BY DEF WizInd, TokensAreTheirOwn, OwnTokens
  <2> QED
      BY <2>2, <2>3 DEF WizardInv
<1> QED
    BY <1>1, WizardAlways, PTL

\* A wizard that says it waits for Steam has a poll out, or starts one with the next
\* frame (launch_poll_worker and its flag), with the same exception.
THEOREM WaitingSafe == WizSpec => []WaitingIsPolled
<1>1. WizInd => WaitingIsPolled
    BY DEF WizInd, WaitingIsPolled, Polled
<1> QED
    BY <1>1, WizardAlways, PTL

-------------------------------------------------------------------------------
(***************************************************************************)
(* The Steam Guard dialogs: what their parts are.                          *)
(***************************************************************************)
Kinds == {"add", "finalize", "verify", "remove"}
Results == {"none", "ok", "failed", "retry", "gone"}
Requests == [n : Nat, kind : Kinds, acct : SAcct, code : BOOLEAN, secret : Secret,
             result : Results]
AddSteps == {"Idle", "Working", "ShowRcode", "AwaitActivation", "Done", "Failed"}
RemSteps == {"Idle", "Confirm", "Working", "Done", "Failed"}
Guards == Guard \cup {NoGuard}

\* A dialog of these steps; one that is open is open on an account.
Dialogs(steps) == [open : BOOLEAN, step : steps, acct : SAcct \cup {NoSAcct}]
DialogOK(d, steps) == d \in Dialogs(steps) /\ (d.open => d.acct \in SAcct)

-------------------------------------------------------------------------------
(* The inductive invariant. *)

Types ==
    /\ linked \in [SAcct -> [active : Secret, pending : Secret]]
    /\ guard \in [SAcct -> Guards] /\ onDisk \in [SAcct -> Guards]
    /\ handedOut \in 2 .. 2 + MaxSecrets /\ obtained \subseteq 3 .. handedOut
    /\ DialogOK(add, AddSteps) /\ DialogOK(rem, RemSteps)
    /\ locked \in BOOLEAN /\ requests \in Nat
    /\ reqs \subseteq Requests /\ posts \in Seq(Requests)

\* What an account may be linked to, with `handed' of them handed out.
Link(l, handed) ==
    /\ l.active <= handed /\ l.pending \in {0} \cup 3 .. handed
    /\ l.active = 0 \/ l.pending = 0

\* Steam has one authenticator or a pending one of an account; the vault has those
\* of a maFile and those the program was sent.
Fresh ==
    \A a \in SAcct :
        /\ Link(linked[a], handedOut)
        /\ {guard[a].secret, onDisk[a].secret} \subseteq 0 .. 2 \cup obtained

\* Only a worker's answer has a result, and only a successful "add" brings secrets.
Brings ==
    /\ \A x \in reqs : x.result = "none"
    /\ \A x \in UnderWay :
          /\ x.secret \in {0} \cup obtained
          /\ x.secret # 0 <=> x.kind = "add" /\ x.result = "ok"

Base == Types /\ Fresh /\ Brings

\* An enrolled record is live, or its removal has succeeded and is about to be applied.
Live(g, a) ==
    g.enrolled /\ g.gid =>
        \/ linked[a].active = g.secret
        \/ \E w \in UnderWay : w.kind = "remove" /\ w.acct = a /\ w.result = "ok"

\* What a successful answer says of its account is still so when it is applied.
Right(x, a) ==
    x.result = "ok" =>
        /\ x.kind = "add" => linked[a].active = 0 /\ linked[a].pending = x.secret
        /\ x.kind = "finalize" => linked[a].active = guard[a].secret
        /\ x.kind = "verify" => (guard[a].gid => linked[a].active = guard[a].secret)
        /\ x.kind = "remove" => Owed(a) = {}

Tended(a) ==
    /\ Kept(a) /\ Live(guard[a], a) /\ Live(onDisk[a], a)
    /\ \A x \in UnderWay : x.acct = a => Right(x, a)

Tracking == astray \subseteq SAcct /\ Astray \subseteq astray

SdaInd == Base /\ Tracking /\ \A a \in SAcct \ astray : Tended(a)

-------------------------------------------------------------------------------
(* Requests under way. *)

LEMMA In == \A x : x \in UnderWay <=> x \in reqs \/ \E i \in DOMAIN posts : x = posts[i]
    BY DEF UnderWay

LEMMA InNext ==
    \A x : x \in UnderWay' <=> x \in reqs' \/ \E i \in DOMAIN posts' : x = posts'[i]
    BY DEF UnderWay

LEMMA UnderWayTyped == Types => UnderWay \subseteq Requests
<1> SUFFICES ASSUME Types, NEW x \in UnderWay PROVE x \in Requests
    OBVIOUS
<1>1. CASE x \in reqs
    BY <1>1 DEF Types
<1>2. CASE \E i \in DOMAIN posts : x = posts[i]
    BY <1>2, ElementOfSeq, LenProperties DEF Types
<1> QED
    BY <1>1, <1>2, In

\* A request that is not astray is the only one for its account, and its dialog
\* waits for it.
LEMMA Attended ==
    ASSUME Tracking, NEW x \in UnderWay, x.acct \notin astray
    PROVE  /\ ~locked /\ Dialog(x).acct = x.acct
           /\ \A y \in UnderWay : y.acct = x.acct => y = x
           /\ ~(x.kind = "remove" /\ x.result = "failed")
    BY DEF Tracking, Astray

LEMMA AttendedNext ==
    ASSUME astray' = astray \cup Astray', NEW x \in UnderWay', x.acct \notin astray'
    PROVE  /\ \A y \in UnderWay' : y.acct = x.acct => y = x
           /\ ~(x.kind = "remove" /\ x.result = "failed")
    BY DEF Astray

\* The account of a request under way is one of the accounts.
LEMMA TrackingNext ==
    ASSUME Tracking, Types', astray' = astray \cup Astray'
    PROVE  Tracking'
<1>1. UnderWay' \subseteq Requests
  <2> SUFFICES ASSUME NEW x \in UnderWay' PROVE x \in Requests
      OBVIOUS
  <2>1. CASE x \in reqs'
      BY <2>1 DEF Types
  <2>2. CASE \E i \in DOMAIN posts' : x = posts'[i]
      BY <2>2, ElementOfSeq, LenProperties DEF Types
  <2> QED
      BY <2>1, <2>2, InNext
<1>2. Astray' \subseteq SAcct
    BY <1>1 DEF Astray, Requests
<1> QED
    BY <1>2 DEF Tracking

-------------------------------------------------------------------------------
(* A step that leaves an account alone. *)

\* The same authenticator in the same state; the revocation code may differ.
SameAs(g, h) == g.secret = h.secret /\ g.gid = h.gid /\ g.enrolled = h.enrolled

\* Nothing successful was lost or added for the account, and at most its record was
\* written to disk.
LEMMA Untouched ==
    ASSUME Base, NEW a \in SAcct, Tended(a), linked'[a] = linked[a], Owed(a)' = Owed(a),
           SameAs(guard'[a], guard[a]),
           SameAs(onDisk'[a], onDisk[a]) \/ SameAs(onDisk'[a], guard[a]),
           \A x \in UnderWay' : x.acct = a => x \in UnderWay \/ x.result # "ok",
           \A x \in UnderWay : x.acct = a /\ x.result = "ok" => x \in UnderWay'
    PROVE  Tended(a)'
<1>1. Kept(a)'
  <2> SUFFICES ASSUME NEW s \in Owed(a),
                      ~(guard'[a].secret = s /\ onDisk'[a].secret = s)
               PROVE  \E w \in UnderWay' : w.kind = "add" /\ w.acct = a /\ w.secret = s
      BY DEF Kept
  <2>1. s # 0
      BY DEF Owed, Base, Types
  <2>2. PICK w \in UnderWay : w.kind = "add" /\ w.acct = a /\ w.secret = s
      BY DEF Tended, Kept, SameAs
  <2>3. w.result = "ok"
      BY <2>1, <2>2 DEF Base, Brings
  <2> QED
      BY <2>2, <2>3
<1>2. ASSUME NEW g, NEW h, Live(g, a), SameAs(h, g)
      PROVE  h.enrolled /\ h.gid =>
                 \/ linked'[a].active = h.secret
                 \/ \E w \in UnderWay' : w.kind = "remove" /\ w.acct = a /\ w.result = "ok"
    BY <1>2 DEF Live, SameAs
<1>3. Live(guard[a], a)' /\ Live(onDisk[a], a)'
  <2>1. Live(guard[a], a) /\ Live(onDisk[a], a)
      BY DEF Tended
  <2>2. Live(guard[a], a)'
      BY <1>2, <2>1 DEF Live
  <2>3. Live(onDisk[a], a)'
      BY <1>2, <2>1 DEF Live
  <2> QED
      BY <2>2, <2>3
<1>4. ASSUME NEW x \in UnderWay', x.acct = a
      PROVE  Right(x, a)'
  <2>1. CASE x.result # "ok"
      BY <2>1 DEF Right
  <2>2. CASE x.result = "ok"
    <3>1. Right(x, a)
        BY <1>4, <2>2 DEF Tended
    <3> QED
        BY <3>1 DEF Right, SameAs
  <2> QED
      BY <2>1, <2>2
<1> QED
    BY <1>1, <1>3, <1>4 DEF Tended

-------------------------------------------------------------------------------
(* The screen and the dialogs. *)

\* What every action of the user, the lock and the saver may do.
Screen ==
    /\ UNCHANGED <<steamSide, posts>>
    /\ \/ reqs' = reqs
       \/ \E r \in Requests : reqs' = reqs \cup {r} /\ r.result = "none" /\ r.secret = 0
    /\ requests' \in Nat /\ locked' \in BOOLEAN
    /\ DialogOK(add', AddSteps) /\ DialogOK(rem', RemSteps)
    /\ guard' \in [SAcct -> Guards]
    /\ \A a \in SAcct : SameAs(guard'[a], guard[a])
    /\ onDisk' = onDisk \/ (onDisk' = guard /\ guard' = guard)

LEMMA StepTyped ==
    ASSUME NEW steps, NEW d, DialogOK(d, steps), NEW st \in steps
    PROVE  LET e == [d EXCEPT !.step = st]
           IN DialogOK(e, steps) /\ e.acct = d.acct /\ e.open = d.open /\ e.step = st
<1> DEFINE e == [d EXCEPT !.step = st]
<1>1. e.acct = d.acct /\ e.open = d.open /\ e.step = st
    BY DEF DialogOK, Dialogs
<1>2. e \in Dialogs(steps)
    BY DEF DialogOK, Dialogs
<1> QED
    BY <1>1, <1>2 DEF DialogOK

LEMMA ShownTyped ==
    ASSUME NEW steps, NEW st \in steps, NEW a \in SAcct
    PROVE  DialogOK(Shows(TRUE, st, a), steps)
    BY DEF DialogOK, Dialogs, Shows

LEMMA ShutTyped ==
    ASSUME NEW steps, "Idle" \in steps, NEW d, DialogOK(d, steps)
    PROVE  DialogOK(Shut(d), steps)
<1>1. CASE d.step \in {"Done", "Failed"}
  <2>1. Shut(d) = Shows(FALSE, "Idle", NoSAcct)
      BY <1>1 DEF Shut
  <2> QED
      BY <2>1 DEF DialogOK, Dialogs, Shows
<1>2. CASE d.step \notin {"Done", "Failed"}
  <2>1. Shut(d) = [d EXCEPT !.open = FALSE]
      BY <1>2 DEF Shut
  <2> DEFINE e == [d EXCEPT !.open = FALSE]
  <2>2. e \in Dialogs(steps) /\ e.open = FALSE
      BY DEF DialogOK, Dialogs
  <2> HIDE DEF e
  <2> QED
      BY <2>1, <2>2 DEF DialogOK, e
<1> QED
    BY <1>1, <1>2

LEMMA Dispatched ==
    ASSUME Types, NEW kind \in Kinds, NEW a \in SAcct, NEW code \in BOOLEAN,
           Dispatch(kind, a, code)
    PROVE  /\ requests' \in Nat
           /\ \E r \in Requests : /\ reqs' = reqs \cup {r} /\ r.result = "none" /\ r.secret = 0
                                  /\ r.kind = kind
<1> DEFINE r == [n |-> requests', kind |-> kind, acct |-> a, code |-> code,
                 secret |-> 0, result |-> "none"]
<1>1. requests' \in Nat /\ reqs' = reqs \cup {r}
    BY DEF Types, Dispatch
<1>2. 0 \in Secret
    BY SdaAssumption DEF Secret
<1>3. r \in Requests /\ r.result = "none" /\ r.secret = 0 /\ r.kind = kind
    BY <1>1, <1>2 DEF Requests, Results
<1> QED
    BY <1>1, <1>3

\* Nothing but the dialogs and the requests is touched.
LEMMA OnlyDialogs ==
    ASSUME Types, UNCHANGED <<steamSide, posts, guard, onDisk, locked>>,
           DialogOK(add', AddSteps), DialogOK(rem', RemSteps),
           \/ Unsent
           \/ \E kind \in Kinds, a \in SAcct, code \in BOOLEAN : Dispatch(kind, a, code)
    PROVE  Screen
<1>1. \A a \in SAcct : SameAs(guard'[a], guard[a])
    BY DEF SameAs
<1>2. guard' \in [SAcct -> Guards] /\ locked' \in BOOLEAN /\ onDisk' = onDisk
    BY DEF Types
<1>3. requests' \in Nat /\ \/ reqs' = reqs
                           \/ \E r \in Requests : /\ reqs' = reqs \cup {r}
                                                  /\ r.result = "none" /\ r.secret = 0
  <2>1. CASE Unsent
      BY <2>1 DEF Unsent, Types
  <2>2. CASE ~Unsent
    <3>1. PICK kind \in Kinds, a \in SAcct, code \in BOOLEAN : Dispatch(kind, a, code)
        BY <2>2
    <3> QED
        BY <3>1, Dispatched
  <2> QED
      BY <2>1, <2>2
<1> QED
    BY <1>1, <1>2, <1>3 DEF Screen

LEMMA RequestsAreScreen ==
    ASSUME Types, NEW a \in SAcct, RequestAdd(a) \/ RequestVerify(a) \/ RequestRemove(a)
    PROVE  Screen
<1>0. DialogOK(add, AddSteps) /\ DialogOK(rem, RemSteps)
    BY DEF Types
<1>1. CASE RequestAdd(a)
  <2>1. UNCHANGED <<steamSide, posts, guard, onDisk, locked, rem>>
      BY <1>1 DEF RequestAdd
  <2>2. CASE Has(a)
    <3>1. add' = Shows(TRUE, "AwaitActivation", a) /\ Unsent
        BY <1>1, <2>2 DEF RequestAdd
    <3> QED
        BY <1>0, <2>1, <3>1, ShownTyped, OnlyDialogs DEF AddSteps
  <2>3. CASE ~Has(a)
    <3>1. add' = Shows(TRUE, "Working", a) /\ Dispatch("add", a, TRUE)
        BY <1>1, <2>3 DEF RequestAdd
    <3>2. DialogOK(add', AddSteps)
        BY <3>1, ShownTyped DEF AddSteps
    <3>3. \E kind \in Kinds, b \in SAcct, code \in BOOLEAN : Dispatch(kind, b, code)
        BY <3>1 DEF Kinds
    <3> QED
        BY <1>0, <2>1, <3>2, <3>3, OnlyDialogs
  <2> QED
      BY <2>2, <2>3
<1>2. CASE RequestVerify(a)
  <2>1. UNCHANGED <<steamSide, posts, guard, onDisk, locked, rem>>
      BY <1>2 DEF RequestVerify
  <2>2. add' = Shows(TRUE, "Working", a) /\ Dispatch("verify", a, TRUE)
      BY <1>2 DEF RequestVerify
  <2>3. DialogOK(add', AddSteps)
      BY <2>2, ShownTyped DEF AddSteps
  <2>4. \E kind \in Kinds, b \in SAcct, code \in BOOLEAN : Dispatch(kind, b, code)
      BY <2>2 DEF Kinds
  <2> QED
      BY <1>0, <2>1, <2>3, <2>4, OnlyDialogs
<1>3. CASE RequestRemove(a)
  <2>1. /\ UNCHANGED <<steamSide, posts, guard, onDisk, locked, add>> /\ Unsent
        /\ rem' = Shows(TRUE, "Confirm", a)
      BY <1>3 DEF RequestRemove, Unsent
  <2> QED
      BY <1>0, <2>1, ShownTyped, OnlyDialogs DEF RemSteps
<1> QED
    BY <1>1, <1>2, <1>3

LEMMA DialogsAreScreen ==
    ASSUME Types,
           WrittenDown \/ AlreadyWorks \/ PressRemove \/ Back \/ Close
               \/ \E code \in BOOLEAN : PressConfirm(code)
    PROVE  Screen
<1>0. DialogOK(add, AddSteps) /\ DialogOK(rem, RemSteps)
    BY DEF Types
<1>1. CASE WrittenDown
  <2>1. /\ UNCHANGED <<steamSide, posts, guard, onDisk, locked, rem>> /\ Unsent
        /\ add' = [add EXCEPT !.step = "AwaitActivation"]
      BY <1>1 DEF WrittenDown, Unsent
  <2> QED
      BY <1>0, <2>1, StepTyped, OnlyDialogs DEF AddSteps
<1>2. CASE AlreadyWorks
  <2>1. /\ UNCHANGED <<steamSide, posts, guard, onDisk, locked, rem>>
        /\ add' = [add EXCEPT !.step = "Working"] /\ Dispatch("verify", add.acct, TRUE)
      BY <1>2 DEF AlreadyWorks
  <2>2. add.acct \in SAcct
      BY <1>2, <1>0 DEF AlreadyWorks, DialogOK
  <2>3. DialogOK(add', AddSteps)
      BY <1>0, <2>1, StepTyped DEF AddSteps
  <2>4. \E kind \in Kinds, b \in SAcct, code \in BOOLEAN : Dispatch(kind, b, code)
      BY <2>1, <2>2 DEF Kinds
  <2> QED
      BY <1>0, <2>1, <2>3, <2>4, OnlyDialogs
<1>3. CASE PressRemove
  <2>1. /\ UNCHANGED <<steamSide, posts, guard, onDisk, locked, add>>
        /\ rem' = [rem EXCEPT !.step = "Working"] /\ Dispatch("remove", rem.acct, TRUE)
      BY <1>3 DEF PressRemove
  <2>2. rem.acct \in SAcct
      BY <1>3, <1>0 DEF PressRemove, DialogOK
  <2>3. DialogOK(rem', RemSteps)
      BY <1>0, <2>1, StepTyped DEF RemSteps
  <2>4. \E kind \in Kinds, b \in SAcct, code \in BOOLEAN : Dispatch(kind, b, code)
      BY <2>1, <2>2 DEF Kinds
  <2> QED
      BY <1>0, <2>1, <2>3, <2>4, OnlyDialogs
<1>4. CASE Back
  <2>1. /\ UNCHANGED <<steamSide, posts, guard, onDisk, locked, add>> /\ Unsent
        /\ rem' = [rem EXCEPT !.step = "Confirm"]
      BY <1>4 DEF Back, Unsent
  <2> QED
      BY <1>0, <2>1, StepTyped, OnlyDialogs DEF RemSteps
<1>5. CASE Close
  <2>1. /\ UNCHANGED <<steamSide, posts, guard, onDisk, locked>> /\ Unsent
        /\ add' \in {add, Shut(add)} /\ rem' \in {rem, Shut(rem)}
      BY <1>5 DEF Close, Unsent
  <2>2. DialogOK(Shut(add), AddSteps) /\ DialogOK(Shut(rem), RemSteps)
      BY <1>0, ShutTyped DEF AddSteps, RemSteps
  <2>3. DialogOK(add', AddSteps) /\ DialogOK(rem', RemSteps)
      BY <1>0, <2>1, <2>2
  <2> QED
      BY <2>1, <2>3, OnlyDialogs
<1>6. ASSUME NEW code \in BOOLEAN, PressConfirm(code)
      PROVE  Screen
  <2>1. /\ UNCHANGED <<steamSide, posts, guard, onDisk, locked, rem>>
        /\ add' = [add EXCEPT !.step = "Working"] /\ Dispatch("finalize", add.acct, code)
      BY <1>6 DEF PressConfirm
  <2>2. add.acct \in SAcct
      BY <1>6, <1>0 DEF PressConfirm, DialogOK
  <2>3. DialogOK(add', AddSteps)
      BY <1>0, <2>1, StepTyped DEF AddSteps
  <2>4. \E kind \in Kinds, b \in SAcct, c \in BOOLEAN : Dispatch(kind, b, c)
      BY <2>1, <2>2 DEF Kinds
  <2> QED
      BY <1>0, <2>1, <2>3, <2>4, OnlyDialogs
<1> QED
    BY <1>1, <1>2, <1>3, <1>4, <1>5, <1>6

LEMMA RestIsScreen ==
    ASSUME Types, LockOrUnlock \/ Write \/ \E a \in SAcct : SaveRcode(a)
    PROVE  Screen
<1>0. /\ DialogOK(add, AddSteps) /\ DialogOK(rem, RemSteps) /\ guard \in [SAcct -> Guards]
      /\ requests \in Nat /\ locked \in BOOLEAN
    BY DEF Types
<1>a. guard' = guard => \A a \in SAcct : SameAs(guard'[a], guard[a])
    BY DEF SameAs
<1>1. CASE LockOrUnlock
  <2>1. /\ UNCHANGED <<steamSide, posts, guard, onDisk, reqs, requests>> /\ locked' \in BOOLEAN
        /\ add' \in {add, Shut(add)} /\ rem' \in {rem, Shut(rem)}
      BY <1>1, <1>0 DEF LockOrUnlock
  <2>2. DialogOK(Shut(add), AddSteps) /\ DialogOK(Shut(rem), RemSteps)
      BY <1>0, ShutTyped DEF AddSteps, RemSteps
  <2>3. DialogOK(add', AddSteps) /\ DialogOK(rem', RemSteps)
      BY <1>0, <2>1, <2>2
  <2> QED
      BY <1>0, <1>a, <2>1, <2>3 DEF Screen
<1>2. CASE Write
    BY <1>0, <1>a, <1>2 DEF Write, Screen
<1>3. ASSUME NEW a \in SAcct, SaveRcode(a)
      PROVE  Screen
  <2> DEFINE g == [guard[a] EXCEPT !.rcode = TRUE]
  <2>1. /\ UNCHANGED <<steamSide, onDisk, locked, add, rem, reqs, posts, requests>>
        /\ guard' = [guard EXCEPT ![a] = g]
      BY <1>3 DEF SaveRcode
  <2>2. guard[a] \in Guard
      BY <1>0, <1>3 DEF SaveRcode, Has, Guards
  <2>3. g \in Guard /\ SameAs(g, guard[a])
      BY <2>2 DEF Guard, SameAs
  <2> HIDE DEF g
  <2>4. guard' \in [SAcct -> Guards]
      BY <1>0, <2>1, <2>3 DEF Guards
  <2>5. \A b \in SAcct : SameAs(guard'[b], guard[b])
      BY <1>0, <2>1, <2>3 DEF SameAs
  <2> QED
      BY <1>0, <2>1, <2>4, <2>5 DEF Screen
<1> QED
    BY <1>1, <1>2, <1>3

\* They keep the invariant.
LEMMA ScreenInd ==
    ASSUME SdaInd, Screen, astray' = astray \cup Astray'
    PROVE  SdaInd'
<1>1. /\ Types /\ Fresh /\ Brings /\ Tracking
      /\ \A a \in SAcct \ astray : Tended(a)
    BY DEF SdaInd, Base
<1>2. Types'
    BY <1>1 DEF Types, Screen, steamSide
<1>3. /\ UnderWay \subseteq UnderWay'
      /\ \A x \in UnderWay' : x \in UnderWay \/ (x \in Requests /\ x.result = "none" /\ x.secret = 0)
      /\ \A x \in reqs' : x.result = "none"
    BY <1>1, In, InNext DEF Screen, Brings
<1>4. UNCHANGED <<linked, handedOut, obtained>>
    BY DEF Screen, steamSide
<1>5. Fresh'
    BY <1>1, <1>4 DEF Fresh, Screen, SameAs
<1>6. Brings'
  <2>1. ASSUME NEW x \in UnderWay'
        PROVE  x.secret \in {0} \cup obtained /\ (x.secret # 0 <=> x.kind = "add" /\ x.result = "ok")
      BY <1>1, <1>3 DEF Brings
  <2> QED
      BY <1>3, <1>4, <2>1 DEF Brings
<1>7. ASSUME NEW a \in SAcct \ astray'
      PROVE  Tended(a)'
  <2>1. a \in SAcct /\ Tended(a) /\ Base
      BY <1>1 DEF Base
  <2>2. Owed(a)' = Owed(a) /\ linked'[a] = linked[a]
      BY <1>4 DEF Owed
  <2>3. SameAs(guard'[a], guard[a])
      BY DEF Screen
  <2>4. SameAs(onDisk'[a], onDisk[a]) \/ SameAs(onDisk'[a], guard[a])
      BY DEF Screen, SameAs
  <2> QED
      BY <1>3, <2>1, <2>2, <2>3, <2>4, Untouched
<1> QED
    BY <1>1, <1>2, <1>5, <1>6, <1>7, TrackingNext DEF SdaInd, Base

-------------------------------------------------------------------------------
(* A worker hears from Steam. *)

\* The callback that brings the answer.
Answer(w, r, s) == [w EXCEPT !.result = r, !.secret = s]

LEMMA AnswerFacts ==
    ASSUME NEW w \in Requests, NEW r \in Results, NEW s \in Secret
    PROVE  LET p == Answer(w, r, s)
           IN p \in Requests /\ p.kind = w.kind /\ p.acct = w.acct /\ p.result = r /\ p.secret = s
<1> DEFINE p == Answer(w, r, s)
<1>1. p.kind = w.kind /\ p.acct = w.acct /\ p.result = r /\ p.secret = s
    BY DEF Answer, Requests
<1>2. p \in Requests
    BY DEF Answer, Requests
<1> QED
    BY <1>1, <1>2

LEMMA RepliedFacts ==
    ASSUME Types, NEW w \in reqs, NEW r \in Results, NEW s \in Secret, Replied(w, r, s)
    PROVE  LET p == Answer(w, r, s)
           IN /\ reqs' = reqs \ {w} /\ posts' \in Seq(Requests) /\ p \in UnderWay'
              /\ \A x \in UnderWay : x # w => x \in UnderWay'
              /\ \A x \in UnderWay' : x \in UnderWay \/ x = p
<1> DEFINE p == Answer(w, r, s)
<1>1. w \in Requests /\ posts \in Seq(Requests)
    BY DEF Types
<1>2. p \in Requests
    BY <1>1, AnswerFacts
<1>3. reqs' = reqs \ {w} /\ posts' = Append(posts, p)
    BY DEF Replied, Answer
<1> HIDE DEF p
<1>4. /\ posts' \in Seq(Requests) /\ Len(posts') = Len(posts) + 1 /\ Len(posts) \in Nat
      /\ posts'[Len(posts) + 1] = p
      /\ \A i \in 1 .. Len(posts) : posts'[i] = posts[i]
    BY <1>1, <1>2, <1>3, AppendProperties, LenProperties
<1>5. DOMAIN posts' = 1 .. Len(posts) + 1 /\ DOMAIN posts = 1 .. Len(posts)
    BY <1>1, <1>4, LenProperties
<1>6. /\ Len(posts) + 1 \in DOMAIN posts'
      /\ \A i \in DOMAIN posts : i \in DOMAIN posts' /\ posts'[i] = posts[i]
      /\ \A i \in DOMAIN posts' : i \in DOMAIN posts \/ posts'[i] = p
    BY <1>4, <1>5
<1>7. p \in UnderWay'
    BY <1>4, <1>6, InNext
<1>8. \A x \in UnderWay : x # w => x \in UnderWay'
    BY <1>3, <1>6, In, InNext
<1>9. \A x \in UnderWay' : x \in UnderWay \/ x = p
    BY <1>3, <1>6, In, InNext
<1> QED
    BY <1>3, <1>4, <1>7, <1>8, <1>9 DEF p

\* What Steam may have done, and what the answer may bring of it.
Heard(w, r, s) ==
    /\ Replied(w, r, s)
    /\ linked' \in [SAcct -> [active : Secret, pending : Secret]]
    /\ \A a \in SAcct : a # w.acct => linked'[a] = linked[a]
    /\ handedOut' \in 2 .. 2 + MaxSecrets /\ Link(linked'[w.acct], handedOut')
    /\ \/ UNCHANGED handedOut /\ UNCHANGED obtained
       \/ handedOut' = handedOut + 1 /\ obtained' \in {obtained, obtained \cup {handedOut'}}
    /\ s \in {0} \cup obtained' /\ (s # 0 <=> w.kind = "add" /\ r = "ok")

\* With it, the account of the request is the only one in question.
LEMMA HeardInd ==
    ASSUME SdaInd, NEW w \in reqs, NEW r \in Results, NEW s \in Secret, Heard(w, r, s),
           UNCHANGED <<guard, onDisk, locked, add, rem, requests>>,
           astray' = astray \cup Astray',
           w.acct \notin astray' => Tended(w.acct)'
    PROVE  SdaInd'
<1> DEFINE p == Answer(w, r, s)
<1>1. /\ Types /\ Fresh /\ Brings /\ Tracking /\ Base
      /\ \A a \in SAcct \ astray : Tended(a)
    BY DEF SdaInd, Base
<1>2. w \in Requests /\ w.acct \in SAcct /\ w \in UnderWay
    BY <1>1, In DEF Types, Requests
<1>3. p \in Requests /\ p.kind = w.kind /\ p.acct = w.acct /\ p.result = r /\ p.secret = s
    BY <1>2, AnswerFacts
<1>4. Replied(w, r, s)
    BY DEF Heard
<1>5. /\ reqs' = reqs \ {w} /\ posts' \in Seq(Requests) /\ p \in UnderWay'
      /\ \A x \in UnderWay : x # w => x \in UnderWay'
      /\ \A x \in UnderWay' : x \in UnderWay \/ x = p
    BY <1>1, <1>4, RepliedFacts
<1> HIDE DEF p
<1>6. /\ handedOut \in Nat /\ handedOut >= 2 /\ handedOut' \in Nat /\ handedOut <= handedOut'
      /\ obtained \subseteq obtained' /\ obtained' \subseteq obtained \cup {handedOut'}
      /\ obtained' \subseteq 3 .. handedOut'
      /\ obtained' # obtained => handedOut' = handedOut + 1
  <2>1. handedOut \in Nat /\ handedOut >= 2 /\ obtained \subseteq 3 .. handedOut
      BY <1>1, SdaAssumption DEF Types
  <2>2. CASE UNCHANGED handedOut /\ UNCHANGED obtained
      BY <2>1, <2>2
  <2>3. CASE handedOut' = handedOut + 1 /\ obtained' \in {obtained, obtained \cup {handedOut'}}
    <3>1. handedOut' \in Nat /\ handedOut <= handedOut' /\ 3 <= handedOut'
        BY <2>1, <2>3
    <3>2. 3 .. handedOut \subseteq 3 .. handedOut' /\ handedOut' \in 3 .. handedOut'
        BY <2>1, <3>1
    <3> QED
        BY <2>1, <2>3, <3>1, <3>2
  <2> QED
      BY <2>2, <2>3 DEF Heard
<1>7. Types'
    BY <1>1, <1>5, <1>6 DEF Types, Heard
<1>8. Fresh'
  <2>1. ASSUME NEW a \in SAcct PROVE Link(linked'[a], handedOut')
    <3>1. CASE a = w.acct
        BY <3>1 DEF Heard
    <3>2. CASE a # w.acct
      <4>1. linked'[a] = linked[a] /\ Link(linked[a], handedOut)
          BY <1>1, <3>2 DEF Heard, Fresh
      <4>2. linked[a].active \in Nat
          BY <1>1 DEF Types, Secret
      <4>3. 3 .. handedOut \subseteq 3 .. handedOut'
          BY <1>6
      <4> QED
          BY <1>6, <4>1, <4>2, <4>3 DEF Link
    <3> QED
        BY <3>1, <3>2
  <2>2. ASSUME NEW a \in SAcct
        PROVE  {guard'[a].secret, onDisk'[a].secret} \subseteq 0 .. 2 \cup obtained'
      BY <1>1, <1>6 DEF Fresh
  <2> QED
      BY <2>1, <2>2 DEF Fresh
<1>9. Brings'
  <2>1. \A x \in reqs' : x.result = "none"
      BY <1>1, <1>5 DEF Brings
  <2>2. ASSUME NEW x \in UnderWay'
        PROVE  x.secret \in {0} \cup obtained' /\ (x.secret # 0 <=> x.kind = "add" /\ x.result = "ok")
    <3>1. CASE x \in UnderWay
        BY <1>1, <1>6, <3>1 DEF Brings
    <3>2. CASE x = p
        BY <1>3, <3>2 DEF Heard
    <3> QED
        BY <1>5, <3>1, <3>2
  <2> QED
      BY <2>1, <2>2 DEF Brings
<1>10. ASSUME NEW a \in SAcct \ astray', a # w.acct
       PROVE  Tended(a)'
  <2>1. a \in SAcct /\ Tended(a) /\ linked'[a] = linked[a]
      BY <1>1, <1>10 DEF Heard
  <2>2. Owed(a)' = Owed(a)
    <3>1. linked[a].active <= handedOut /\ linked[a].pending <= handedOut
        BY <1>1, <1>6 DEF Fresh, Link
    <3>2. linked[a].active \in Nat /\ linked[a].pending \in Nat
        BY <1>1 DEF Types, Secret
    <3>3. obtained' # obtained => linked[a].active # handedOut' /\ linked[a].pending # handedOut'
        BY <1>6, <3>1, <3>2
    <3>4. obtained' \cap {linked[a].active, linked[a].pending}
              = obtained \cap {linked[a].active, linked[a].pending}
        BY <1>6, <3>3
    <3> QED
        BY <2>1, <3>4 DEF Owed
  <2>3. SameAs(guard'[a], guard[a]) /\ SameAs(onDisk'[a], onDisk[a])
      BY DEF SameAs
  <2>4. \A x \in UnderWay' : x.acct = a => x \in UnderWay
      BY <1>3, <1>5, <1>10
  <2>5. \A x \in UnderWay : x.acct = a => x \in UnderWay'
      BY <1>5, <1>10
  <2> QED
      BY <1>1, <2>1, <2>2, <2>3, <2>4, <2>5, Untouched
<1>11. ASSUME NEW a \in SAcct \ astray'
       PROVE  Tended(a)'
    BY <1>10, <1>11
<1> QED
    BY <1>1, <1>7, <1>8, <1>9, <1>11, TrackingNext DEF SdaInd, Base

\* Of an account that is not astray: it was tended, the answer is the only callback
\* for it, and nothing else was under way.
LEMMA HeardOwn ==
    ASSUME SdaInd, NEW w \in reqs, NEW r \in Results, NEW s \in Secret, Replied(w, r, s),
           astray' = astray \cup Astray', w.acct \notin astray'
    PROVE  /\ w.acct \in SAcct /\ Tended(w.acct)
           /\ \A x \in UnderWay : x.acct = w.acct => x = w
           /\ Answer(w, r, s) \in UnderWay'
           /\ Answer(w, r, s).acct = w.acct /\ Answer(w, r, s).kind = w.kind
           /\ Answer(w, r, s).result = r /\ Answer(w, r, s).secret = s
           /\ \A x \in UnderWay' : x.acct = w.acct => x = Answer(w, r, s)
           /\ ~(w.kind = "remove" /\ r = "failed")
<1> DEFINE p == Answer(w, r, s)
<1>1. Types /\ Tracking /\ \A a \in SAcct \ astray : Tended(a)
    BY DEF SdaInd, Base
<1>2. w \in Requests /\ w.acct \in SAcct /\ w \in UnderWay /\ w.acct \notin astray
    BY <1>1, In DEF Types, Requests
<1>3. p.kind = w.kind /\ p.acct = w.acct /\ p.result = r /\ p.secret = s
    BY <1>2, AnswerFacts
<1>4. p \in UnderWay'
    BY <1>1, RepliedFacts
<1> HIDE DEF p
<1>5. \A x \in UnderWay : x.acct = w.acct => x = w
    BY <1>1, <1>2, Attended
<1>6. (\A x \in UnderWay' : x.acct = w.acct => x = p) /\ ~(w.kind = "remove" /\ r = "failed")
    BY <1>3, <1>4, AttendedNext
<1> QED
    BY <1>1, <1>2, <1>3, <1>4, <1>5, <1>6 DEF p

\* Before it, the vault and the disk had what Steam counts on.
LEMMA HeardBefore ==
    ASSUME SdaInd, NEW w \in reqs, Tended(w.acct),
           \A x \in UnderWay : x.acct = w.acct => x = w
    PROVE  /\ \A s \in Owed(w.acct) : guard[w.acct].secret = s /\ onDisk[w.acct].secret = s
           /\ \A g \in {guard[w.acct], onDisk[w.acct]} :
                  g.enrolled /\ g.gid => linked[w.acct].active = g.secret
<1>1. w \in UnderWay /\ w.result = "none" /\ w.secret = 0
    BY In DEF SdaInd, Base, Brings
<1>2. \A s \in Owed(w.acct) : s # 0
    BY DEF Owed, SdaInd, Base, Types
<1>3. \A s \in Owed(w.acct) : guard[w.acct].secret = s /\ onDisk[w.acct].secret = s
    BY <1>1, <1>2 DEF Tended, Kept
<1>4. Live(guard[w.acct], w.acct) /\ Live(onDisk[w.acct], w.acct)
    BY DEF Tended
<1>5. \A g : Live(g, w.acct) => (g.enrolled /\ g.gid => linked[w.acct].active = g.secret)
    BY <1>1 DEF Live
<1> QED
    BY <1>3, <1>4, <1>5

\* No answer, or the status of the account: Steam did nothing.
LEMMA ToldNothing ==
    ASSUME SdaInd, NEW w \in reqs, NEW r \in Results, Replied(w, r, 0),
           UNCHANGED steamSide, UNCHANGED <<guard, onDisk, locked, add, rem, requests>>,
           r = "ok" => w.kind = "verify" /\ Confirms(guard[w.acct], linked[w.acct].active),
           astray' = astray \cup Astray'
    PROVE  SdaInd'
<1> DEFINE a == w.acct p == Answer(w, r, 0)
<1>1. UNCHANGED <<linked, handedOut, obtained>>
    BY DEF steamSide
<1>2. w \in Requests /\ a \in SAcct /\ Types /\ Fresh /\ 0 \in Secret
    BY SdaAssumption DEF SdaInd, Base, Types, Requests, Secret
<1>3. Heard(w, r, 0)
  <2>1. Link(linked'[a], handedOut')
      BY <1>1, <1>2 DEF Fresh
  <2> QED
      BY <1>1, <1>2, <2>1 DEF Heard, Types
<1>4. ASSUME a \notin astray'
      PROVE  Tended(a)'
  <2>1. /\ a \in SAcct /\ Tended(a) /\ \A x \in UnderWay : x.acct = a => x = w
        /\ p.acct = a /\ p.kind = w.kind /\ p.result = r /\ p.secret = 0
        /\ \A x \in UnderWay' : x.acct = a => x = p
      BY <1>2, <1>4, HeardOwn
  <2>2. /\ \A s \in Owed(a) : guard[a].secret = s /\ onDisk[a].secret = s
        /\ \A g \in {guard[a], onDisk[a]} : g.enrolled /\ g.gid => linked[a].active = g.secret
      BY <2>1, HeardBefore
  <2> HIDE DEF a, p
  <2>3. Kept(a)'
      BY <1>1, <2>2 DEF Kept, Owed
  <2>4. Live(guard[a], a)' /\ Live(onDisk[a], a)'
      BY <1>1, <2>2 DEF Live
  <2>5. r = "ok" => p.kind = "verify" /\ (guard[a].gid => linked[a].active = guard[a].secret)
      BY <2>1 DEF Confirms, a
  <2>6. Right(p, a)'
      BY <1>1, <2>1, <2>5 DEF Right
  <2> QED
      BY <2>1, <2>3, <2>4, <2>6 DEF Tended
<1> QED
    BY <1>2, <1>3, <1>4, HeardInd

\* Steam hands out a new authenticator, and the program may not hear of it.
LEMMA ToldSecrets ==
    ASSUME SdaInd, NEW w \in reqs, AddAuthenticator(w),
           UNCHANGED <<guard, onDisk, locked, add, rem, requests>>,
           astray' = astray \cup Astray'
    PROVE  SdaInd'
<1> DEFINE a == w.acct
<1>0. PICK h : h = handedOut + 1
    OBVIOUS
<1>1. PICK r \in {"ok", "failed"} :
          /\ Replied(w, r, IF r = "ok" THEN h ELSE 0)
          /\ obtained' = IF r = "ok" THEN obtained \cup {h} ELSE obtained
    BY <1>0 DEF AddAuthenticator
<1> DEFINE s == IF r = "ok" THEN h ELSE 0  p == Answer(w, r, s)
<1>2. /\ w.kind = "add" /\ linked[a].active = 0 /\ handedOut < 2 + MaxSecrets
      /\ handedOut' = h /\ linked' = [linked EXCEPT ![a].pending = h]
    BY <1>0 DEF AddAuthenticator
<1>3. /\ w \in Requests /\ a \in SAcct /\ Types /\ Fresh
      /\ handedOut \in Nat /\ handedOut >= 2 /\ obtained \subseteq 3 .. handedOut
    BY SdaAssumption DEF SdaInd, Base, Types, Requests
<1>4. h \in Secret /\ h \in 2 .. 2 + MaxSecrets /\ h \in 3 .. h /\ 0 \in Secret /\ h # 0
    BY <1>0, <1>2, <1>3, SdaAssumption DEF Secret
<1>5. s \in Secret /\ r \in Results /\ Replied(w, r, s)
    BY <1>1, <1>4 DEF Results
<1>6. /\ linked[a] \in [active : Secret, pending : Secret]
      /\ linked'[a] = [linked[a] EXCEPT !.pending = h]
      /\ \A b \in SAcct : b # a => linked'[b] = linked[b]
    BY <1>2, <1>3 DEF Types
<1>7. linked'[a].active = 0 /\ linked'[a].pending = h
    BY <1>2, <1>6
<1>8. linked' \in [SAcct -> [active : Secret, pending : Secret]]
    BY <1>2, <1>3, <1>4 DEF Types
<1>9. Heard(w, r, s)
  <2>1. Link(linked'[a], handedOut')
      BY <1>2, <1>4, <1>7 DEF Link
  <2>2. s \in {0} \cup obtained' /\ (s # 0 <=> w.kind = "add" /\ r = "ok")
      BY <1>1, <1>2, <1>4
  <2>3. handedOut' = handedOut + 1 /\ obtained' \in {obtained, obtained \cup {handedOut'}}
      BY <1>0, <1>1, <1>2
  <2> QED
      BY <1>2, <1>4, <1>5, <1>6, <1>8, <2>1, <2>2, <2>3 DEF Heard
<1>10. ASSUME a \notin astray'
       PROVE  Tended(a)'
  <2>1. /\ a \in SAcct /\ Tended(a) /\ \A x \in UnderWay : x.acct = a => x = w
        /\ p \in UnderWay' /\ p.acct = a /\ p.kind = w.kind /\ p.result = r /\ p.secret = s
        /\ \A x \in UnderWay' : x.acct = a => x = p
      BY <1>5, <1>10, HeardOwn
  <2>2. \A g \in {guard[a], onDisk[a]} : g.enrolled /\ g.gid => linked[a].active = g.secret
      BY <2>1, HeardBefore
  <2>3. r = "ok" => s = h
      OBVIOUS
  <2> HIDE DEF a, p, s
  <2>5. Owed(a)' \subseteq IF r = "ok" THEN {h} ELSE {}
    <3>1. obtained \cap {0, h} = {}
        BY <1>0, <1>2, <1>3
    <3> QED
        BY <1>1, <1>7, <1>4, <3>1 DEF Owed
  <2>6. Kept(a)'
      BY <1>2, <2>1, <2>3, <2>5 DEF Kept
  <2>7. Live(guard[a], a)' /\ Live(onDisk[a], a)'
      BY <1>2, <1>7, <2>2 DEF Live
  <2>8. Right(p, a)'
      BY <1>2, <1>7, <2>1, <2>3 DEF Right
  <2> QED
      BY <2>1, <2>6, <2>7, <2>8 DEF Tended
<1> HIDE DEF s
<1> QED
    BY <1>5, <1>9, <1>10, HeardInd

\* A finalized authenticator is the one in the vault and on disk.
LEMMA ToldFinal ==
    ASSUME SdaInd, NEW w \in reqs, FinalizeAdd(w),
           UNCHANGED <<guard, onDisk, locked, add, rem, requests>>,
           astray' = astray \cup Astray'
    PROVE  SdaInd'
<1> DEFINE a == w.acct g == guard[w.acct].secret
<1>1. /\ w.kind = "finalize" /\ Has(a) /\ UNCHANGED <<handedOut, obtained>>
    BY DEF FinalizeAdd
<1>2. CASE Replied(w, "retry", 0) /\ UNCHANGED linked
  <2>1. UNCHANGED steamSide /\ "retry" \in Results
      BY <1>1, <1>2 DEF steamSide, Results
  <2> QED
      BY <1>2, <2>1, ToldNothing
<1>3. CASE /\ linked[a].pending = g
           /\ linked' = [linked EXCEPT ![a] = [active |-> g, pending |-> 0]]
           /\ \E r \in {"ok", "failed"} : Replied(w, r, 0)
  <2>1. PICK r \in {"ok", "failed"} : Replied(w, r, 0)
      BY <1>3
  <2> DEFINE p == Answer(w, r, 0)
  <2>2. /\ w \in Requests /\ a \in SAcct /\ Types /\ Fresh /\ 0 \in Secret /\ r \in Results
        /\ handedOut \in Nat /\ handedOut >= 2 /\ handedOut \in 2 .. 2 + MaxSecrets
        /\ obtained \subseteq 3 .. handedOut
      BY SdaAssumption DEF SdaInd, Base, Types, Requests, Secret, Results
  <2>3. g \in Secret /\ g # 0
      BY <1>1, <2>2 DEF Types, Has, Guards, Guard
  <2>4. g \in obtained
    <3>1. g \in 0 .. 2 \cup obtained /\ g \in {0} \cup 3 .. handedOut
        BY <1>3, <2>2 DEF Fresh, Link
    <3> QED
        BY <2>2, <2>3, <3>1
  <2>5. /\ linked'[a] = [active |-> g, pending |-> 0]
        /\ \A b \in SAcct : b # a => linked'[b] = linked[b]
        /\ linked' \in [SAcct -> [active : Secret, pending : Secret]]
      BY <1>3, <2>2, <2>3 DEF Types
  <2>6. Heard(w, r, 0)
    <3>1. Link(linked'[a], handedOut')
      <4> HIDE DEF g
      <4>1. linked'[a].active = g /\ linked'[a].pending = 0
          BY <2>5
      <4>2. g \in 3 .. handedOut /\ handedOut' = handedOut
          BY <1>1, <2>2, <2>4
      <4>3. g <= handedOut
          BY <2>2, <4>2
      <4> QED
          BY <4>1, <4>2, <4>3 DEF Link
    <3> QED
        BY <1>1, <2>1, <2>2, <2>5, <3>1 DEF Heard
  <2>7. ASSUME a \notin astray'
        PROVE  Tended(a)'
    <3>1. /\ a \in SAcct /\ Tended(a) /\ \A x \in UnderWay : x.acct = a => x = w
          /\ p.acct = a /\ p.kind = w.kind /\ p.result = r
          /\ \A x \in UnderWay' : x.acct = a => x = p
        BY <2>1, <2>2, <2>7, HeardOwn
    <3>2. \A s \in Owed(a) : guard[a].secret = s /\ onDisk[a].secret = s
        BY <3>1, HeardBefore
    <3>3. onDisk[a].secret = g
        BY <1>3, <2>4, <3>2 DEF Owed
    <3> HIDE DEF a, p
    <3>4. Owed(a)' \subseteq {g}
        BY <1>1, <2>2, <2>5 DEF Owed
    <3>5. Kept(a)'
        BY <3>3, <3>4 DEF Kept, a
    <3>6. Live(guard[a], a)' /\ Live(onDisk[a], a)'
        BY <2>5, <3>3 DEF Live, a
    <3>7. Right(p, a)'
        BY <1>1, <2>5, <3>1 DEF Right, a
    <3> QED
        BY <3>1, <3>5, <3>6, <3>7 DEF Tended
  <2> QED
      BY <2>2, <2>6, <2>7, HeardInd
<1> QED
    BY <1>2, <1>3 DEF FinalizeAdd

\* After a removal Steam counts on nothing.
LEMMA ToldRemoved ==
    ASSUME SdaInd, NEW w \in reqs, RemoveAuthenticator(w),
           UNCHANGED <<guard, onDisk, locked, add, rem, requests>>,
           astray' = astray \cup Astray'
    PROVE  SdaInd'
<1> DEFINE a == w.acct
<1>1. /\ w.kind = "remove" /\ Has(a) /\ guard[a].secret = linked[a].active
      /\ linked' = [linked EXCEPT ![a].active = 0] /\ UNCHANGED <<handedOut, obtained>>
    BY DEF RemoveAuthenticator
<1>2. PICK r \in {"ok", "failed"} : Replied(w, r, 0)
    BY DEF RemoveAuthenticator
<1> DEFINE p == Answer(w, r, 0)
<1>3. /\ w \in Requests /\ a \in SAcct /\ Types /\ Fresh /\ 0 \in Secret /\ r \in Results
      /\ handedOut \in Nat /\ handedOut >= 2 /\ handedOut \in 2 .. 2 + MaxSecrets
      /\ obtained \subseteq 3 .. handedOut
    BY SdaAssumption DEF SdaInd, Base, Types, Requests, Secret, Results
<1>4. linked[a].active # 0 /\ linked[a].pending = 0
  <2>1. guard[a].secret # 0
      BY <1>1, <1>3 DEF Types, Has, Guards, Guard
  <2> QED
      BY <1>1, <1>3, <2>1 DEF Fresh, Link
<1>5. /\ linked'[a] = [linked[a] EXCEPT !.active = 0]
      /\ linked[a] \in [active : Secret, pending : Secret]
      /\ \A b \in SAcct : b # a => linked'[b] = linked[b]
    BY <1>1, <1>3 DEF Types
<1>6. linked'[a].active = 0 /\ linked'[a].pending = 0
    BY <1>4, <1>5
<1>7. linked' \in [SAcct -> [active : Secret, pending : Secret]]
    BY <1>1, <1>3 DEF Types
<1>8. Heard(w, r, 0)
  <2>1. Link(linked'[a], handedOut')
      BY <1>1, <1>3, <1>6 DEF Link
  <2> QED
      BY <1>1, <1>2, <1>3, <1>5, <1>7, <2>1 DEF Heard
<1>9. ASSUME a \notin astray'
      PROVE  Tended(a)'
  <2>1. /\ p \in UnderWay' /\ p.acct = a /\ p.kind = w.kind /\ p.result = r
        /\ \A x \in UnderWay' : x.acct = a => x = p
        /\ ~(w.kind = "remove" /\ r = "failed")
      BY <1>2, <1>3, <1>9, HeardOwn
  <2>2. r = "ok"
      BY <1>1, <1>2, <2>1
  <2> HIDE DEF a, p
  <2>3. Owed(a)' = {}
      BY <1>1, <1>3, <1>6 DEF Owed
  <2>4. Kept(a)'
      BY <2>3 DEF Kept
  <2>5. Live(guard[a], a)' /\ Live(onDisk[a], a)'
      BY <1>1, <2>1, <2>2 DEF Live
  <2>6. Right(p, a)'
      BY <1>1, <2>1, <2>3 DEF Right
  <2> QED
      BY <2>1, <2>4, <2>5, <2>6 DEF Tended
<1> QED
    BY <1>3, <1>8, <1>9, HeardInd

LEMMA AskInd ==
    ASSUME SdaInd, NEW w \in reqs, Ask(w), astray' = astray \cup Astray'
    PROVE  SdaInd'
<1>1. UNCHANGED <<guard, onDisk, locked, add, rem, requests>>
    BY DEF Ask
<1>2. CASE NoAnswer(w)
  <2>1. PICK r \in {"gone", "failed"} : Replied(w, r, 0) /\ UNCHANGED steamSide
      BY <1>2 DEF NoAnswer
  <2>2. r \in Results /\ r # "ok"
      BY DEF Results
  <2> QED
      BY <1>1, <2>1, <2>2, ToldNothing
<1>3. CASE QueryStatus(w)
  <2> DEFINE r == IF Confirms(guard[w.acct], linked[w.acct].active) THEN "ok" ELSE "failed"
  <2>1. /\ w.kind = "verify" /\ Replied(w, r, 0) /\ UNCHANGED steamSide
      BY <1>3 DEF QueryStatus
  <2>2. r \in Results /\ (r = "ok" => Confirms(guard[w.acct], linked[w.acct].active))
      BY DEF Results
  <2> HIDE DEF r
  <2> QED
      BY <1>1, <2>1, <2>2, ToldNothing
<1> QED
    BY <1>1, <1>2, <1>3, ToldSecrets, ToldFinal, ToldRemoved DEF Ask

-------------------------------------------------------------------------------
(* A callback applies what a worker heard. *)

\* Nothing of the vault changes: the answer is no success, or the dialog has left
\* the account, or the vault is locked.
Dropped(w) ==
    /\ UNCHANGED <<guard, onDisk>>
    /\ w.result # "ok" \/ locked \/ Dialog(w).acct # w.acct

\* The record of the account is called enrolled.
Finished(w) == w.kind \in {"finalize", "verify"} /\ w.result = "ok" /\ Enrolled(w)

\* The new secrets are stored, and written at once.
Stored(w) ==
    /\ w.kind = "add" /\ w.result = "ok" /\ onDisk' = guard'
    /\ guard' = [guard EXCEPT ![w.acct] =
                    [secret |-> w.secret, gid |-> TRUE, enrolled |-> FALSE, rcode |-> TRUE]]

\* The record goes, and the file with it.
Erased(w) ==
    /\ w.kind = "remove" /\ w.result = "ok" /\ onDisk' = guard'
    /\ guard' = [guard EXCEPT ![w.acct] = NoGuard]

Applied(w) ==
    /\ UNCHANGED <<steamSide, locked>> /\ posts' = Tail(posts)
    /\ \/ reqs' = reqs
       \/ \E r \in Requests : reqs' = reqs \cup {r} /\ r.result = "none" /\ r.secret = 0
    /\ requests' \in Nat
    /\ DialogOK(add', AddSteps) /\ DialogOK(rem', RemSteps)
    /\ Dropped(w) \/ Finished(w) \/ Stored(w) \/ Erased(w)

LEMMA ResultIsApplied ==
    ASSUME Types, ApplyResult, NEW w \in Requests, w = Head(posts)
    PROVE  Applied(w)
<1>1. /\ UNCHANGED <<steamSide, locked>> /\ posts' = Tail(posts)
      /\ DialogOK(add, AddSteps) /\ DialogOK(rem, RemSteps) /\ requests \in Nat
    BY DEF ApplyResult, Types
<1>a. \A st \in AddSteps : DialogOK([add EXCEPT !.step = st], AddSteps)
    BY <1>1, StepTyped
<1>b. \A st \in RemSteps : DialogOK([rem EXCEPT !.step = st], RemSteps)
    BY <1>1, StepTyped
<1>c. Unsent => requests' \in Nat /\ reqs' = reqs
    BY <1>1 DEF Unsent
<1>2. CASE /\ w.result = "gone" /\ UNCHANGED <<guard, onDisk>> /\ Unsent
           /\ IF w.kind = "remove" THEN rem' = [rem EXCEPT !.step = "Failed"] /\ add' = add
              ELSE add' = [add EXCEPT !.step = "Failed"] /\ rem' = rem
  <2>1. DialogOK(add', AddSteps) /\ DialogOK(rem', RemSteps)
      BY <1>1, <1>2, <1>a, <1>b DEF AddSteps, RemSteps
  <2> QED
      BY <1>1, <1>2, <1>c, <2>1 DEF Applied, Dropped
<1>3. CASE w.result # "gone" /\ Dialog(w).acct # w.acct /\ UNCHANGED <<guard, onDisk, add, rem>> /\ Unsent
    BY <1>1, <1>3, <1>c DEF Applied, Dropped
<1>4. CASE w.kind = "add" /\ AfterAdd(w) /\ UNCHANGED rem /\ Unsent
  <2>1. add' \in {[add EXCEPT !.step = "Failed"], [add EXCEPT !.step = "ShowRcode"]}
      BY <1>4 DEF AfterAdd
  <2>2. DialogOK(add', AddSteps) /\ DialogOK(rem', RemSteps)
      BY <1>1, <1>4, <1>a, <2>1 DEF AddSteps
  <2>3. Dropped(w) \/ Stored(w)
      BY <1>4 DEF AfterAdd, Dropped, Stored, Flushed
  <2> QED
      BY <1>1, <1>4, <1>c, <2>2, <2>3 DEF Applied
<1>5. CASE w.kind = "finalize" /\ AfterFinalize(w) /\ UNCHANGED rem
  <2>1. CASE w.result = "ok"
    <3>1. Enrolled(w) /\ add' = [add EXCEPT !.step = "Done"] /\ Unsent
        BY <1>5, <2>1 DEF AfterFinalize
    <3>2. DialogOK(add', AddSteps) /\ DialogOK(rem', RemSteps)
        BY <1>1, <1>5, <1>a, <3>1 DEF AddSteps
    <3> QED
        BY <1>1, <1>5, <1>c, <2>1, <3>1, <3>2 DEF Applied, Finished
  <2>2. CASE w.result = "retry"
    <3>1. add' = [add EXCEPT !.step = "AwaitActivation"] /\ UNCHANGED <<guard, onDisk>> /\ Unsent
        BY <1>5, <2>2 DEF AfterFinalize
    <3>2. DialogOK(add', AddSteps) /\ DialogOK(rem', RemSteps)
        BY <1>1, <1>5, <1>a, <3>1 DEF AddSteps
    <3> QED
        BY <1>1, <1>c, <2>2, <3>1, <3>2 DEF Applied, Dropped
  <2>3. CASE w.result \notin {"ok", "retry"}
    <3>1. /\ UNCHANGED <<guard, onDisk>>
          /\ \/ add' = [add EXCEPT !.step = "Failed"] /\ Unsent
             \/ add' = [add EXCEPT !.step = "Working"] /\ Dispatch("verify", w.acct, TRUE)
        BY <1>5, <2>3 DEF AfterFinalize
    <3>2. DialogOK(add', AddSteps) /\ DialogOK(rem', RemSteps)
        BY <1>1, <1>5, <1>a, <3>1 DEF AddSteps
    <3>3. requests' \in Nat /\ \/ reqs' = reqs
                               \/ \E r \in Requests : /\ reqs' = reqs \cup {r}
                                                      /\ r.result = "none" /\ r.secret = 0
      <4>1. CASE Unsent
          BY <1>c, <4>1
      <4>2. CASE Dispatch("verify", w.acct, TRUE)
        <5>1. w.acct \in SAcct /\ "verify" \in Kinds
            BY DEF Requests, Kinds
        <5> QED
            BY <4>2, <5>1, Dispatched
      <4> QED
          BY <3>1, <4>1, <4>2
    <3> QED
        BY <1>1, <2>3, <3>1, <3>2, <3>3 DEF Applied, Dropped
  <2> QED
      BY <2>1, <2>2, <2>3
<1>6. CASE w.kind = "verify" /\ AfterVerify(w) /\ UNCHANGED rem /\ Unsent
  <2>1. add' \in {[add EXCEPT !.step = "Failed"], [add EXCEPT !.step = "Done"]}
      BY <1>6 DEF AfterVerify
  <2>2. DialogOK(add', AddSteps) /\ DialogOK(rem', RemSteps)
      BY <1>1, <1>6, <1>a, <2>1 DEF AddSteps
  <2>3. Dropped(w) \/ Finished(w)
      BY <1>6 DEF AfterVerify, Dropped, Finished
  <2> QED
      BY <1>1, <1>6, <1>c, <2>2, <2>3 DEF Applied
<1>7. CASE w.kind = "remove" /\ AfterRemove(w) /\ UNCHANGED add /\ Unsent
  <2>1. rem' \in {[rem EXCEPT !.step = "Failed"], [rem EXCEPT !.step = "Done"]}
      BY <1>7 DEF AfterRemove
  <2>2. DialogOK(add', AddSteps) /\ DialogOK(rem', RemSteps)
      BY <1>1, <1>7, <1>b, <2>1 DEF RemSteps
  <2>3. Dropped(w) \/ Erased(w)
      BY <1>7 DEF AfterRemove, Dropped, Erased, Flushed
  <2> QED
      BY <1>1, <1>7, <1>c, <2>2, <2>3 DEF Applied
<1> QED
    BY <1>2, <1>3, <1>4, <1>5, <1>6, <1>7 DEF ApplyResult

LEMMA AppliedUnderWay ==
    ASSUME Types, posts # <<>>, NEW w, w = Head(posts), Applied(w)
    PROVE  /\ reqs' \subseteq Requests /\ posts' \in Seq(Requests) /\ w \in UnderWay
           /\ \A x \in UnderWay : x # w => x \in UnderWay'
           /\ \A x \in UnderWay' : x \in UnderWay \/ (x.result = "none" /\ x.secret = 0)
<1>1. /\ posts \in Seq(Requests) /\ posts' = Tail(posts) /\ reqs \subseteq Requests
      /\ reqs \subseteq reqs' /\ reqs' \subseteq Requests
      /\ \A x \in reqs' : x \in reqs \/ (x.result = "none" /\ x.secret = 0)
    BY DEF Types, Applied
<1>2. /\ posts' \in Seq(Requests) /\ Len(posts') = Len(posts) - 1 /\ Len(posts) \in Nat \ {0}
      /\ \A i \in 1 .. Len(posts') : posts'[i] = posts[i + 1]
      /\ w = posts[1]
    BY <1>1, HeadTailProperties, EmptySeq, LenProperties
<1>3. DOMAIN posts = 1 .. Len(posts) /\ DOMAIN posts' = 1 .. Len(posts')
    BY <1>1, <1>2, LenProperties
<1>4. \A i \in 1 .. Len(posts) : i # 1 => i - 1 \in 1 .. Len(posts') /\ posts'[i - 1] = posts[i]
    BY <1>2
<1>5. \A i \in 1 .. Len(posts') : i + 1 \in 1 .. Len(posts)
    BY <1>2
<1>6. 1 \in DOMAIN posts
    BY <1>2, <1>3
<1>7. w \in UnderWay
    BY <1>2, <1>6, In
<1>8. ASSUME NEW x \in UnderWay, x # w PROVE x \in UnderWay'
  <2>1. CASE x \in reqs
      BY <1>1, <2>1, InNext
  <2>2. CASE \E i \in DOMAIN posts : x = posts[i]
    <3>1. PICK i \in DOMAIN posts : x = posts[i]
        BY <2>2
    <3>2. i - 1 \in DOMAIN posts' /\ x = posts'[i - 1]
        BY <1>2, <1>3, <1>4, <1>8, <3>1
    <3> QED
        BY <3>2, InNext
  <2> QED
      BY <2>1, <2>2, In
<1>9. ASSUME NEW x \in UnderWay'
      PROVE  x \in UnderWay \/ (x.result = "none" /\ x.secret = 0)
  <2>1. CASE x \in reqs'
      BY <1>1, <2>1, In
  <2>2. CASE \E i \in DOMAIN posts' : x = posts'[i]
    <3>1. PICK i \in DOMAIN posts' : x = posts'[i]
        BY <2>2
    <3>2. i + 1 \in DOMAIN posts /\ x = posts[i + 1]
        BY <1>2, <1>3, <1>5, <3>1
    <3> QED
        BY <3>2, In
  <2> QED
      BY <2>1, <2>2, InNext
<1> QED
    BY <1>1, <1>2, <1>7, <1>8, <1>9

\* The records in memory and on disk.
LEMMA AppliedGuard ==
    ASSUME Base, NEW w \in UnderWay, w \in Requests, Applied(w)
    PROVE  /\ guard' \in [SAcct -> Guards] /\ onDisk' \in [SAcct -> Guards]
           /\ \A b \in SAcct : b # w.acct => guard'[b] = guard[b]
           /\ onDisk' \in {onDisk, guard'}
           /\ guard'[w.acct].secret \in 0 .. 2 \cup obtained
<1> DEFINE a == w.acct
<1>1. /\ guard \in [SAcct -> Guards] /\ onDisk \in [SAcct -> Guards] /\ a \in SAcct
      /\ guard[a].secret \in 0 .. 2 \cup obtained
    BY DEF Base, Types, Requests, Fresh
<1>2. CASE Dropped(w)
    BY <1>1, <1>2 DEF Dropped
<1>3. CASE Finished(w)
  <2>1. CASE ~locked /\ Has(a)
    <3> DEFINE g == [guard[a] EXCEPT !.enrolled = TRUE]
    <3>1. guard' = [guard EXCEPT ![a] = g] /\ onDisk' = onDisk
        BY <1>3, <2>1 DEF Finished, Enrolled
    <3>2. guard[a] \in Guard
        BY <1>1, <2>1 DEF Has, Guards
    <3>3. g \in Guard /\ g.secret = guard[a].secret
        BY <3>2 DEF Guard
    <3> HIDE DEF g
    <3> QED
        BY <1>1, <3>1, <3>3 DEF Guards
  <2>2. CASE ~(~locked /\ Has(a))
      BY <1>1, <1>3, <2>2 DEF Finished, Enrolled
  <2> QED
      BY <2>1, <2>2
<1>4. CASE Stored(w)
  <2> DEFINE g == [secret |-> w.secret, gid |-> TRUE, enrolled |-> FALSE, rcode |-> TRUE]
  <2>1. w.secret \in obtained /\ w.secret \in Secret \ {0}
      BY <1>4 DEF Stored, Base, Brings, Requests
  <2>2. g \in Guard /\ g.secret = w.secret
      BY <2>1 DEF Guard
  <2>3. guard' = [guard EXCEPT ![a] = g] /\ onDisk' = guard'
      BY <1>4 DEF Stored
  <2> HIDE DEF g
  <2> QED
      BY <1>1, <2>1, <2>2, <2>3 DEF Guards
<1>5. CASE Erased(w)
  <2>1. guard' = [guard EXCEPT ![a] = NoGuard] /\ onDisk' = guard'
      BY <1>5 DEF Erased
  <2>2. NoGuard \in Guards /\ NoGuard.secret = 0
      BY DEF Guards, NoGuard
  <2> QED
      BY <1>1, <2>1, <2>2
<1> QED
    BY <1>2, <1>3, <1>4, <1>5 DEF Applied

\* Of an account that is not astray, what is applied is what was asked for.
LEMMA AppliedOwn ==
    ASSUME SdaInd, NEW w \in UnderWay, w \in Requests, Applied(w), w.acct \notin astray,
           \A x \in UnderWay : x # w => x \in UnderWay',
           \A x \in UnderWay' : x \in UnderWay \/ x.result = "none"
    PROVE  Tended(w.acct)'
<1> DEFINE a == w.acct
<1>1. /\ Base /\ Tracking /\ a \in SAcct /\ Tended(a) /\ UNCHANGED <<linked, obtained>>
      /\ guard[a] \in Guards /\ guard \in [SAcct -> Guards] /\ obtained \subseteq 3 .. handedOut
    BY DEF SdaInd, Base, Types, Requests, Applied, steamSide
<1>2. /\ ~locked /\ Dialog(w).acct = a
      /\ \A x \in UnderWay : x.acct = a => x = w
    BY <1>1, Attended
<1>3. Owed(a)' = Owed(a) /\ linked'[a] = linked[a] /\ \A s \in Owed(a) : s # 0
    BY <1>1 DEF Owed
<1>4. w.result = "ok" => Right(w, a)
    BY <1>1 DEF Tended
<1>5. \A x \in UnderWay' : x.acct = a => x = w \/ x.result # "ok"
    BY <1>2
<1> HIDE DEF a
<1>6. CASE Dropped(w)
  <2>1. w.result # "ok" /\ guard' = guard /\ onDisk' = onDisk
      BY <1>2, <1>6 DEF Dropped, a
  <2>2. SameAs(guard'[a], guard[a]) /\ SameAs(onDisk'[a], onDisk[a])
      BY <2>1 DEF SameAs
  <2>3. \A x \in UnderWay' : x.acct = a => x \in UnderWay \/ x.result # "ok"
      BY <1>5
  <2>4. \A x \in UnderWay : x.acct = a /\ x.result = "ok" => x \in UnderWay'
      BY <2>1
  <2>5. Tended(a)'
      BY <1>1, <1>3, <2>2, <2>3, <2>4, Untouched
  <2> QED
      BY <2>5 DEF a
<1>7. CASE Finished(w)
  <2>1. w.kind \in {"finalize", "verify"} /\ w.result = "ok" /\ Enrolled(w)
      BY <1>7 DEF Finished
  <2>2. onDisk' = onDisk /\ guard'[a].secret = guard[a].secret /\ guard'[a].gid = guard[a].gid
    <3>1. CASE Has(a)
      <4> DEFINE g == [guard[a] EXCEPT !.enrolled = TRUE]
      <4>1. guard' = [guard EXCEPT ![a] = g] /\ onDisk' = onDisk
          BY <1>2, <2>1, <3>1 DEF Enrolled, a
      <4>2. guard[a] \in Guard
          BY <1>1, <3>1 DEF Has, Guards
      <4>3. g.secret = guard[a].secret /\ g.gid = guard[a].gid
          BY <4>2 DEF Guard
      <4> HIDE DEF g
      <4> QED
          BY <1>1, <4>1, <4>3
    <3>2. CASE ~Has(a)
        BY <2>1, <3>2 DEF Enrolled, a
    <3> QED
        BY <3>1, <3>2
  <2>3. guard[a].gid => linked[a].active = guard[a].secret
      BY <1>4, <2>1 DEF Right
  <2>4. \A s \in Owed(a) : guard[a].secret = s /\ onDisk[a].secret = s
      BY <1>1, <1>2, <2>1 DEF Tended, Kept
  <2>5. onDisk[a].enrolled /\ onDisk[a].gid => linked[a].active = onDisk[a].secret
      BY <1>1, <1>2, <2>1 DEF Tended, Live
  <2>6. Kept(a)'
      BY <1>3, <2>2, <2>4 DEF Kept
  <2>7. Live(guard[a], a)' /\ Live(onDisk[a], a)'
      BY <1>3, <2>2, <2>3, <2>5 DEF Live
  <2>8. ASSUME NEW x \in UnderWay', x.acct = a
        PROVE  Right(x, a)'
    <3>1. CASE x.result # "ok"
        BY <3>1 DEF Right
    <3>2. CASE x = w
        BY <1>3, <1>4, <2>1, <2>2, <3>2 DEF Right
    <3> QED
        BY <1>5, <2>8, <3>1, <3>2
  <2>9. Tended(a)'
      BY <2>6, <2>7, <2>8 DEF Tended
  <2> QED
      BY <2>9 DEF a
<1>8. CASE Stored(w)
  <2>1. w.kind = "add" /\ w.result = "ok" /\ onDisk' = guard'
      BY <1>8 DEF Stored
  <2>2. linked[a].active = 0 /\ linked[a].pending = w.secret
      BY <1>4, <2>1 DEF Right
  <2>3. guard'[a].secret = w.secret /\ guard'[a].enrolled = FALSE
      BY <1>1, <1>8 DEF Stored, a
  <2>4. \A s \in Owed(a) : s = w.secret
      BY <1>3, <2>2 DEF Owed
  <2>5. Kept(a)'
      BY <1>3, <2>1, <2>3, <2>4 DEF Kept
  <2>6. Live(guard[a], a)' /\ Live(onDisk[a], a)'
      BY <2>1, <2>3 DEF Live
  <2>7. ASSUME NEW x \in UnderWay', x.acct = a
        PROVE  Right(x, a)'
    <3>1. CASE x.result # "ok"
        BY <3>1 DEF Right
    <3>2. CASE x = w
        BY <1>3, <2>1, <2>2, <3>2 DEF Right
    <3> QED
        BY <1>5, <2>7, <3>1, <3>2
  <2>8. Tended(a)'
      BY <2>5, <2>6, <2>7 DEF Tended
  <2> QED
      BY <2>8 DEF a
<1>9. CASE Erased(w)
  <2>1. w.kind = "remove" /\ w.result = "ok" /\ onDisk' = guard'
      BY <1>9 DEF Erased
  <2>2. Owed(a)' = {}
      BY <1>3, <1>4, <2>1 DEF Right
  <2>3. guard'[a].enrolled = FALSE
      BY <1>1, <1>9 DEF Erased, NoGuard, a
  <2>4. Kept(a)'
      BY <2>2 DEF Kept
  <2>5. Live(guard[a], a)' /\ Live(onDisk[a], a)'
      BY <2>1, <2>3 DEF Live
  <2>6. ASSUME NEW x \in UnderWay', x.acct = a
        PROVE  Right(x, a)'
    <3>1. CASE x.result # "ok"
        BY <3>1 DEF Right
    <3>2. CASE x = w
        BY <2>1, <2>2, <3>2 DEF Right
    <3> QED
        BY <1>5, <2>6, <3>1, <3>2
  <2>7. Tended(a)'
      BY <2>4, <2>5, <2>6 DEF Tended
  <2> QED
      BY <2>7 DEF a
<1> QED
    BY <1>6, <1>7, <1>8, <1>9 DEF Applied

LEMMA ApplyInd ==
    ASSUME SdaInd, ApplyResult, astray' = astray \cup Astray'
    PROVE  SdaInd'
<1>1. /\ Types /\ Fresh /\ Brings /\ Base /\ Tracking /\ posts # <<>>
      /\ \A a \in SAcct \ astray : Tended(a)
    BY DEF SdaInd, Base, ApplyResult
<1>2. PICK w : w = Head(posts)
    OBVIOUS
<1>3. w \in Requests /\ w.acct \in SAcct
  <2>1. posts \in Seq(Requests)
      BY <1>1 DEF Types
  <2>2. w \in Requests
      BY <1>1, <1>2, <2>1, HeadTailProperties
  <2> QED
      BY <2>2 DEF Requests
<1>4. Applied(w)
    BY <1>1, <1>2, <1>3, ResultIsApplied
<1>5. /\ reqs' \subseteq Requests /\ posts' \in Seq(Requests) /\ w \in UnderWay
      /\ \A x \in UnderWay : x # w => x \in UnderWay'
      /\ \A x \in UnderWay' : x \in UnderWay \/ (x.result = "none" /\ x.secret = 0)
    BY <1>1, <1>2, <1>4, AppliedUnderWay
<1>6. /\ guard' \in [SAcct -> Guards] /\ onDisk' \in [SAcct -> Guards]
      /\ \A b \in SAcct : b # w.acct => guard'[b] = guard[b]
      /\ onDisk' \in {onDisk, guard'}
      /\ guard'[w.acct].secret \in 0 .. 2 \cup obtained
    BY <1>1, <1>3, <1>4, <1>5, AppliedGuard
<1>7. UNCHANGED <<linked, handedOut, obtained, locked>>
    BY <1>4 DEF Applied, steamSide
<1>8. Types'
    BY <1>1, <1>4, <1>5, <1>6, <1>7 DEF Types, Applied
<1>9. Fresh'
  <2>1. ASSUME NEW b \in SAcct
        PROVE  /\ guard'[b].secret \in 0 .. 2 \cup obtained
               /\ onDisk'[b].secret \in 0 .. 2 \cup obtained
    <3>1. guard'[b].secret \in 0 .. 2 \cup obtained
        BY <1>1, <1>6 DEF Fresh
    <3> QED
        BY <1>1, <1>6, <3>1 DEF Fresh
  <2> QED
      BY <1>1, <1>7, <2>1 DEF Fresh
<1>10. Brings'
  <2>1. \A x \in reqs' : x.result = "none"
      BY <1>1, <1>4 DEF Applied, Brings
  <2>2. ASSUME NEW x \in UnderWay'
        PROVE  x.secret \in {0} \cup obtained /\ (x.secret # 0 <=> x.kind = "add" /\ x.result = "ok")
      BY <1>1, <1>5 DEF Brings
  <2> QED
      BY <1>7, <2>1, <2>2 DEF Brings
<1>11. ASSUME NEW b \in SAcct \ astray', b # w.acct
       PROVE  Tended(b)'
  <2>1. b \in SAcct /\ Tended(b)
      BY <1>1
  <2>2. Owed(b)' = Owed(b) /\ linked'[b] = linked[b]
      BY <1>7 DEF Owed
  <2>3. guard'[b] = guard[b] /\ onDisk'[b] \in {onDisk[b], guard[b]}
      BY <1>6, <1>11, <2>1
  <2>4. SameAs(guard'[b], guard[b])
      BY <2>3 DEF SameAs
  <2>5. SameAs(onDisk'[b], onDisk[b]) \/ SameAs(onDisk'[b], guard[b])
      BY <2>3 DEF SameAs
  <2>6. \A x \in UnderWay' : x.acct = b => x \in UnderWay \/ x.result # "ok"
      BY <1>5
  <2>7. \A x \in UnderWay : x.acct = b /\ x.result = "ok" => x \in UnderWay'
      BY <1>5, <1>11
  <2> QED
      BY <1>1, <2>1, <2>2, <2>4, <2>5, <2>6, <2>7, Untouched
<1>12. ASSUME w.acct \notin astray'
       PROVE  Tended(w.acct)'
    BY <1>3, <1>4, <1>5, <1>12, AppliedOwn
<1>13. ASSUME NEW b \in SAcct \ astray' PROVE Tended(b)'
    BY <1>11, <1>12, <1>13
<1> QED
    BY <1>1, <1>8, <1>9, <1>10, <1>13, TrackingNext DEF SdaInd, Base

-------------------------------------------------------------------------------
(* A new process. *)

LEMMA DieInd ==
    ASSUME SdaInd, Die, astray' = astray \cup {w.acct : w \in UnderWay}
    PROVE  SdaInd'
<1>1. /\ Types /\ Fresh /\ Brings /\ Base /\ Tracking
      /\ \A a \in SAcct \ astray : Tended(a)
    BY DEF SdaInd, Base
<1>2. /\ guard' = onDisk /\ onDisk' = onDisk /\ locked' = FALSE /\ reqs' = {} /\ posts' = <<>>
      /\ add' = Shows(FALSE, "Idle", NoSAcct) /\ rem' = Shows(FALSE, "Idle", NoSAcct)
      /\ UNCHANGED <<linked, handedOut, obtained, requests>>
    BY DEF Die, steamSide
<1>3. posts' \in Seq(Requests) /\ DOMAIN posts' = {}
    BY <1>2, EmptySeq
<1>4. UnderWay' = {}
    BY <1>2, <1>3, InNext
<1>5. DialogOK(add', AddSteps) /\ DialogOK(rem', RemSteps)
    BY <1>2 DEF Shows, DialogOK, Dialogs, AddSteps, RemSteps
<1>6. Types'
    BY <1>1, <1>2, <1>3, <1>5 DEF Types
<1>7. Fresh' /\ Brings'
    BY <1>1, <1>2, <1>4 DEF Fresh, Brings
<1>8. Tracking'
  <2>1. Astray' = {}
      BY <1>4 DEF Astray
  <2>2. astray' \subseteq SAcct
      BY <1>1, UnderWayTyped DEF Tracking, Requests
  <2> QED
      BY <2>1, <2>2 DEF Tracking
<1>9. ASSUME NEW a \in SAcct \ astray'
      PROVE  Tended(a)'
  <2>1. Tended(a) /\ \A x \in UnderWay : x.acct # a
      BY <1>1
  <2>2. Kept(a)'
      BY <1>2, <2>1 DEF Tended, Kept, Owed
  <2>3. Live(guard[a], a)' /\ Live(onDisk[a], a)'
      BY <1>2, <2>1 DEF Tended, Live
  <2> QED
      BY <1>4, <2>2, <2>3 DEF Tended
<1> QED
    BY <1>6, <1>7, <1>8, <1>9 DEF SdaInd, Base

LEMMA InitInd == SdaInit => SdaInd
<1> SUFFICES ASSUME SdaInit PROVE SdaInd
    OBVIOUS
<1>1. PICK b \in SAcct, active \in {0, Other}, g \in {NoGuard} \cup FromMaFile :
          /\ linked = [a \in SAcct |-> [active |-> IF a = b THEN active ELSE 0, pending |-> 0]]
          /\ guard = [a \in SAcct |-> IF a = b THEN g ELSE NoGuard]
    BY DEF SdaInit
<1>2. /\ onDisk = guard /\ handedOut = 2 /\ obtained = {} /\ locked = FALSE
      /\ add = Shows(FALSE, "Idle", NoSAcct) /\ rem = Shows(FALSE, "Idle", NoSAcct)
      /\ reqs = {} /\ posts = <<>> /\ requests = 0 /\ astray = {}
    BY DEF SdaInit
<1>3. /\ 0 \in Secret /\ Other \in Secret \ {0} /\ Old \in Secret \ {0} /\ active \in Secret
      /\ Other = 1 /\ Old = 2
    BY SdaAssumption DEF Secret, Other, Old
<1>4. \A a \in SAcct : guard[a] \in Guards /\ guard[a].secret \in 0 .. 2 /\ ~guard[a].enrolled
  <2>1. ASSUME g \in [secret : {Old}, gid : BOOLEAN, enrolled : {FALSE}, rcode : {FALSE}]
        PROVE  g \in Guards /\ g.secret \in 0 .. 2 /\ ~g.enrolled
    <3>1. g \in [secret : Secret \ {0}, gid : BOOLEAN, enrolled : BOOLEAN, rcode : BOOLEAN]
      <4>1. {Old} \subseteq Secret \ {0} /\ {FALSE} \subseteq BOOLEAN
          BY <1>3
      <4> QED
          BY <2>1, <4>1
    <3>2. g.secret = Old /\ g.enrolled = FALSE
        BY <2>1
    <3>3. g \in Guards
        BY <3>1 DEF Guards, Guard
    <3> QED
        BY <1>3, <3>2, <3>3
  <2>2. ASSUME g = [secret |-> Other, gid |-> TRUE, enrolled |-> FALSE, rcode |-> FALSE]
        PROVE  g \in Guards /\ g.secret \in 0 .. 2 /\ ~g.enrolled
    <3>1. g \in Guard
        BY <1>3, <2>2 DEF Guard
    <3>2. g.secret = Other /\ g.enrolled = FALSE
        BY <2>2
    <3> QED
        BY <1>3, <3>1, <3>2 DEF Guards
  <2>3. NoGuard \in Guards /\ NoGuard.secret = 0 /\ ~NoGuard.enrolled
      BY DEF Guards, NoGuard
  <2>4. g \in Guards /\ g.secret \in 0 .. 2 /\ ~g.enrolled
    <3>1. CASE g = NoGuard
        BY <2>3, <3>1
    <3>2. CASE g # NoGuard
      <4>1. \/ g = [secret |-> Other, gid |-> TRUE, enrolled |-> FALSE, rcode |-> FALSE]
            \/ g \in [secret : {Old}, gid : BOOLEAN, enrolled : {FALSE}, rcode : {FALSE}]
          BY <3>2 DEF FromMaFile
      <4> QED
          BY <1>3, <2>1, <2>2, <4>1
    <3> QED
        BY <3>1, <3>2
  <2> HIDE DEF NoGuard
  <2> QED
      BY <1>1, <2>3, <2>4
<1>5. guard \in [SAcct -> Guards]
    BY <1>1, <1>4
<1>6. linked \in [SAcct -> [active : Secret, pending : Secret]]
    BY <1>1, <1>3
<1>7. posts \in Seq(Requests) /\ UnderWay = {}
    BY <1>2, EmptySeq, In
<1>8. DialogOK(add, AddSteps) /\ DialogOK(rem, RemSteps)
    BY <1>2 DEF Shows, DialogOK, Dialogs, AddSteps, RemSteps
<1>9. Types
  <2>1. handedOut \in 2 .. 2 + MaxSecrets /\ obtained \subseteq 3 .. handedOut /\ requests \in Nat
      BY <1>2, SdaAssumption
  <2>2. reqs \subseteq Requests /\ locked \in BOOLEAN /\ onDisk \in [SAcct -> Guards]
      BY <1>2, <1>5
  <2> QED
      BY <1>5, <1>6, <1>7, <1>8, <2>1, <2>2 DEF Types
<1>10. Fresh
  <2>1. ASSUME NEW a \in SAcct PROVE Link(linked[a], handedOut)
    <3>1. linked[a].pending = 0 /\ linked[a].active \in {0, 1}
        BY <1>1, <1>3
    <3> QED
        BY <1>2, <3>1 DEF Link
  <2> QED
      BY <1>2, <1>4, <2>1 DEF Fresh
<1>11. Brings /\ Tracking
    BY <1>2, <1>7 DEF Brings, Tracking, Astray
<1>12. ASSUME NEW a \in SAcct PROVE Tended(a)
    BY <1>2, <1>4, <1>7 DEF Tended, Kept, Owed, Live
<1> QED
    BY <1>9, <1>10, <1>11, <1>12 DEF SdaInd, Base

LEMMA StutterInd == ASSUME SdaInd, UNCHANGED sdaVars PROVE SdaInd'
<1>1. UNCHANGED <<linked, handedOut, obtained, guard, onDisk, locked, add, rem, reqs, posts,
                  requests, astray>>
    BY DEF sdaVars, steamSide
<1>2. UnderWay' = UnderWay /\ Astray' = Astray
    BY <1>1 DEF UnderWay, Astray, Dialog
<1>3. Types' /\ Fresh' /\ Brings' /\ Tracking'
    BY <1>1, <1>2 DEF SdaInd, Base, Types, Fresh, Brings, Tracking
<1>4. ASSUME NEW a \in SAcct \ astray' PROVE Tended(a)'
  <2>1. Tended(a)
      BY <1>1 DEF SdaInd
  <2> QED
      BY <1>1, <1>2, <2>1 DEF Tended, Kept, Owed, Live, Right
<1> QED
    BY <1>3, <1>4 DEF SdaInd, Base

LEMMA NextInd == ASSUME SdaInd, [SdaNext]_sdaVars PROVE SdaInd'
<1>1. CASE UNCHANGED sdaVars
    BY <1>1, StutterInd
<1>2. CASE Die /\ astray' = astray \cup {w.acct : w \in UnderWay}
    BY <1>2, DieInd
<1>3. CASE Tracked
  <2>1. SdaStep /\ astray' = astray \cup Astray' /\ Types
      BY <1>3 DEF Tracked, SdaInd, Base
  <2>2. CASE \E w \in reqs : Ask(w)
      BY <2>1, <2>2, AskInd
  <2>3. CASE ApplyResult
      BY <2>1, <2>3, ApplyInd
  <2>4. CASE Screen
      BY <2>1, <2>4, ScreenInd
  <2> QED
      BY <2>1, <2>2, <2>3, <2>4, RequestsAreScreen, DialogsAreScreen, RestIsScreen DEF SdaStep
<1> QED
    BY <1>1, <1>2, <1>3 DEF SdaNext

-------------------------------------------------------------------------------
(* The theorems. *)

LEMMA IndIsSafe == SdaInd => SdaInv /\ SecretsKept
<1> SUFFICES ASSUME SdaInd PROVE SdaInv /\ SecretsKept
    OBVIOUS
<1>1. SdaTypeOK
    BY DEF SdaInd, Base, Types, Tracking, SdaTypeOK, DialogOK, Dialogs, AddSteps, RemSteps, Guards
<1>2. EnrolledIsLive
    BY DEF SdaInd, Tended, Live, EnrolledIsLive
<1>3. SecretsKept
    BY DEF SdaInd, Tended, SecretsKept
<1> QED
    BY <1>1, <1>2, <1>3 DEF SdaInv

\* The inductive invariant holds of every behaviour: what the vault, the disk, Steam
\* and the requests under way say of an account fit together, unless one of its
\* requests went astray (crash, lock, a dialog that left, two requests at once, or a
\* removal whose answer was lost).
THEOREM SdaAlways == SdaSpec => []SdaInd
<1>1. SdaInit => SdaInd
    BY InitInd
<1>2. SdaInd /\ [SdaNext]_sdaVars => SdaInd'
    BY NextInd
<1> QED
    BY <1>1, <1>2, PTL DEF SdaSpec

\* An authenticator the vault calls enrolled is the one Steam asks for, or its
\* removal is under way (revoke.cpp: finalize_add_authenticator, query_status).
THEOREM EnrolledSafe == SdaSpec => []SdaInv
<1>1. SdaInd => SdaInv
    BY IndIsSafe
<1> QED
    BY <1>1, SdaAlways, PTL

\* The secrets of an authenticator are on disk before the dialog shows anything of
\* it, and stay there as long as Steam counts on them (sda_wizard_dialogs.cpp: the
\* callback of add_authenticator flushes before it shows the revocation code).
THEOREM SecretsSafe == SdaSpec => []SecretsKept
<1>1. SdaInd => SecretsKept
    BY IndIsSafe
<1> QED
    BY <1>1, SdaAlways, PTL
===============================================================================
