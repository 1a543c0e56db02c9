---------------------------- MODULE AccountMerge ----------------------------
(***************************************************************************)
(* How accounts get into the vault other than by a sign-in: maFiles,       *)
(* info.dat files, pasted login tokens, the tokens the local Steam client  *)
(* remembers, and bundles exported here or elsewhere; with the edits that  *)
(* change what a later import finds (rename, conversion, removal, groups). *)
(* An import looks for the account it is about: by Steam ID, then by login *)
(* (find_existing_account), or with the stricter rule of a bundle          *)
(* (same_account).  The import dialog shows a dry run of the merge.        *)
(*                                                                         *)
(* Every handler ends by handing the vault to the saver and most by        *)
(* starting a refresh: those are VaultSession's and RefreshAll's matter.   *)
(* A file that cannot be read or decrypted leaves everything as it was.    *)
(***************************************************************************)
EXTENDS Integers, SequencesExt

CONSTANTS
    Sid, NoSid,         \* Steam IDs; NoSid is the 0 of an unresolved account
    Login, NoLogin,     \* login names; NoLogin is the empty one
    LocalSid,           \* what this PC's loginusers.vdf says of a login
    UserGroup,          \* ids of groups the user makes
    FirstVaults,        \* vaults to start from
    NoBundle,           \* no .samvault file yet
    Foreign,            \* bundles that come from another machine
    MaxIds, MaxSteps    \* bounds: accounts created, handlers run

VARIABLES
    vault,      \* [accounts, groups, tag] of the open vault; tag: the Cached tag
    bundle,     \* the .samvault file on disk: its vault and its damage; or NoBundle
    dlg,        \* the import dialog: stage, error, the bundle read, the dry run's report
    candidates, \* local sign-ins listed by the Import cached tab
    nextId,     \* ids handed out by generate_ulid
    steps

mergeVars == <<vault, bundle, dlg, candidates, nextId, steps>>

NFA == "grp-nfa"
CACHED == "grp-cached"
NoGroup == "none"
GroupId == {NFA, CACHED} \cup UserGroup
GroupName == {"NFA", "Cached", "Other"}

Account == [id : 1 .. MaxIds, sid : Sid \cup {NoSid}, login : Login \cup {NoLogin},
            password : BOOLEAN, is_nfa : BOOLEAN, cached : BOOLEAN,
            group : GroupId \cup {NoGroup}]
Vault == [accounts : Seq(Account), groups : Seq([id : GroupId, name : GroupName]),
          tag : BOOLEAN]

\* Each account's group and tag are the vault's.
Resolves(v) ==
    \A i \in DOMAIN v.accounts :
        /\ v.accounts[i].group = NoGroup \/ \E k \in DOMAIN v.groups : v.groups[k].id = v.accounts[i].group
        /\ v.accounts[i].cached => v.tag

NoVaultYet == [accounts |-> <<>>, groups |-> <<>>, tag |-> FALSE]
\* What happened to a file on its way: the magic, the KDF fields or a length are
\* wrong; the schema is newer; something the key seals was altered.
Damage == {"none", "header", "newer", "sealed"}

\* A vault comes from an earlier run of this program, and a bundle from another
\* machine was exported by it.
ASSUME MergeAssumption ==
    /\ MaxIds \in Nat /\ MaxSteps \in Nat
    /\ IsFiniteSet(Login) /\ LocalSid \in [Login -> Sid \cup {NoSid}]
    /\ FirstVaults \subseteq Vault /\ Foreign \subseteq [content : Vault, damage : Damage]
    /\ \A v \in FirstVaults \cup {b.content : b \in Foreign} : Resolves(v)

ClosedDialog == [stage |-> "closed", error |-> "none", preview |-> NoVaultYet,
                 report |-> [added |-> 0, overwritten |-> 0, tags |-> 0]]

-----------------------------------------------------------------------------
(* Matching.                                                               *)

SameAccount(a, b) ==
    IF a.sid # NoSid /\ b.sid # NoSid THEN a.sid = b.sid ELSE a.login = b.login

\* Position of the first match, 0 if there is none.
FindExisting(accounts, sid, login) ==
    LET bySid == SelectInSeq(accounts, LAMBDA a : sid # NoSid /\ a.sid = sid)
    IN  IF bySid # 0 THEN bySid
        ELSE SelectInSeq(accounts, LAMBDA a : login # NoLogin /\ a.login = login)

SidOf(sid, login) ==
    IF sid # NoSid \/ login = NoLogin THEN sid ELSE LocalSid[login]

Blank == [id |-> nextId, sid |-> NoSid, login |-> NoLogin, password |-> FALSE,
          is_nfa |-> FALSE, cached |-> FALSE, group |-> NoGroup]

\* The account found is changed in place, a new one is appended.
Upsert(accounts, i, Change(_), fresh) ==
    IF i = 0 THEN Append(accounts, Change(fresh))
             ELSE [accounts EXCEPT ![i] = Change(@)]

-----------------------------------------------------------------------------
(* The reserved groups and tag.                                            *)

\* An existing group of that id, or of that name, stands in for the reserved one.
Reserved(groups, id, name) ==
    LET i == SelectInSeq(groups, LAMBDA g : g.id = id \/ g.name = name)
    IN  IF i = 0 THEN id ELSE groups[i].id

EnsureGroup(groups, id, name) ==
    IF Reserved(groups, id, name) \in {groups[i].id : i \in DOMAIN groups} THEN groups
    ELSE Append(groups, [id |-> id, name |-> name])

-----------------------------------------------------------------------------
(* Bundles.                                                                *)

\* The elements of s that are in P, in their order.
Picked(s, P) == FoldLeft(LAMBDA kept, x : IF x \in P THEN Append(kept, x) ELSE kept, <<>>, s)

Subset_mutant(v, ids) ==
    LET kept == Picked(v.accounts, {a \in Range(v.accounts) : a.id \in ids})
    IN  [accounts |-> kept, groups |-> <<>>, tag |-> \E i \in DOMAIN kept : kept[i].cached]

\* The accounts asked for, with every tag and group they refer to.
Subset(v, ids) ==
    LET kept == Picked(v.accounts, {a \in Range(v.accounts) : a.id \in ids})
    IN  [accounts |-> kept,
         groups   |-> Picked(v.groups, {g \in Range(v.groups) :
                                            \E i \in DOMAIN kept : kept[i].group = g.id}),
         tag      |-> \E i \in DOMAIN kept : kept[i].cached]

\* decrypt_vault: the header is judged before the key is derived, and only the
\* seal can tell a wrong passphrase, so altered contents look like one.
LoadError(file, right) ==
    IF file.damage = "header" THEN "corrupt"
    ELSE IF file.damage = "newer" THEN "unsupported"
    ELSE IF file.damage = "sealed" \/ ~right THEN "wrong password" ELSE "none"

PreviewMerge(dst, imported) ==
    LET hits == {i \in DOMAIN imported.accounts :
                    \E j \in DOMAIN dst.accounts :
                        SameAccount(dst.accounts[j], imported.accounts[i])}
    IN  [added |-> Len(imported.accounts) - Cardinality(hits),
         overwritten |-> Cardinality(hits),
         tags |-> IF imported.tag /\ ~dst.tag THEN 1 ELSE 0]

Overwrite_mutant(old, incoming) == incoming

\* A matched account keeps its id and takes everything else.
Overwrite(old, incoming) == [incoming EXCEPT !.id = old.id]

\* acc: the accounts merged so far, with the counts of the report.
MergeAccount(acc, incoming) ==
    LET i == SelectInSeq(acc.accounts, LAMBDA a : SameAccount(a, incoming))
        Take(old) == Overwrite(old, incoming)
    IN  [accounts    |-> Upsert(acc.accounts, i, Take, incoming),
         added       |-> IF i = 0 THEN acc.added + 1 ELSE acc.added,
         overwritten |-> IF i = 0 THEN acc.overwritten ELSE acc.overwritten + 1]

\* The merged vault together with the report of the merge.
MergeInto(dst, imported) ==
    LET known  == {dst.groups[i].id : i \in DOMAIN dst.groups}
        merged == FoldLeft(MergeAccount, [accounts |-> dst.accounts, added |-> 0, overwritten |-> 0],
                           imported.accounts)
    IN  [accounts |-> merged.accounts,
         groups   |-> dst.groups \o Picked(imported.groups,
                                      {g \in Range(imported.groups) : g.id \notin known}),
         tag      |-> dst.tag \/ imported.tag,
         report   |-> [added |-> merged.added, overwritten |-> merged.overwritten,
                       tags |-> IF imported.tag /\ ~dst.tag THEN 1 ELSE 0]]

MergedVault(m) == [accounts |-> m.accounts, groups |-> m.groups, tag |-> m.tag]

-----------------------------------------------------------------------------

MergeInit ==
    /\ vault \in FirstVaults
    /\ bundle \in Foreign \cup {NoBundle}
    /\ dlg = ClosedDialog
    /\ candidates = <<>>
    /\ nextId = 1 + Cardinality({vault.accounts[i].id : i \in DOMAIN vault.accounts})
    /\ steps = 0

\* A modal dialog keeps the user from everything else.
Step == steps < MaxSteps /\ steps' = steps + 1
UserStep == Step /\ dlg.stage = "closed"

\* Accounts change; a fresh id is used up when one was appended.
Store(accounts) ==
    /\ vault' = [vault EXCEPT !.accounts = accounts]
    /\ nextId' = IF Len(accounts) > Len(vault.accounts) THEN nextId + 1 ELSE nextId
    /\ UNCHANGED <<bundle, dlg, candidates>>

\* import_one_mafile: an account that exists keeps its login and its Steam ID.
WithGuard(a, login, sid, pw) ==
    [a EXCEPT !.sid = IF @ = NoSid THEN sid ELSE @, !.password = @ \/ pw,
              !.login = IF a.id = nextId THEN login ELSE @]

\* import_one_info_dat: the file's login and Steam ID replace what is there.
WithEntry(a, login, sid, pw) ==
    [a EXCEPT !.login = login, !.password = @ \/ pw, !.sid = IF sid # NoSid THEN sid ELSE @]

(* maFile: the guard's account name, the session's Steam ID and tokens.    *)
ImportMafile ==
    /\ UserStep /\ nextId <= MaxIds
    /\ \E login \in Login, sid \in Sid \cup {NoSid}, tokenSid \in Sid \cup {NoSid}, pw \in BOOLEAN :
        LET local == SidOf(sid, login)
            known == IF local # NoSid THEN local ELSE tokenSid
            Apply(a) == WithGuard(a, login, known, pw)
        IN  Store(Upsert(vault.accounts, FindExisting(vault.accounts, known, login), Apply, Blank))

(* One named entry of an info.dat.                                         *)
ImportInfoDat ==
    /\ UserStep /\ nextId <= MaxIds
    /\ \E login \in Login, sid \in Sid \cup {NoSid}, pw \in BOOLEAN :
        LET known == SidOf(sid, login)
            Apply(a) == WithEntry(a, login, known, pw)
        IN  Store(Upsert(vault.accounts, FindExisting(vault.accounts, known, login), Apply, Blank))

\* The account of a login token: an account without a password is token-only.
WithToken(a, sid, hint) ==
    [a EXCEPT !.sid = IF sid # NoSid THEN sid ELSE @,
              !.login = IF hint # NoLogin THEN hint ELSE @,
              !.is_nfa = ~a.password]

\* import_jwt_token, on accounts and groups; with assignNfa a token-only
\* account goes to the NFA group.
JwtImported(v, fresh, tokenSid, hint, assignNfa) ==
    LET sid   == SidOf(tokenSid, hint)
        i     == FindExisting(v.accounts, sid, hint)
        nfa   == assignNfa /\ (i = 0 \/ ~v.accounts[i].password)
        groups == IF nfa THEN EnsureGroup(v.groups, NFA, "NFA") ELSE v.groups
        Apply(a) == [WithToken(a, sid, hint) EXCEPT
                        !.group = IF nfa THEN Reserved(v.groups, NFA, "NFA") ELSE @]
    IN  [accounts |-> Upsert(v.accounts, i, Apply, fresh), groups |-> groups, tag |-> v.tag]

StoreVault(v) ==
    /\ vault' = v
    /\ nextId' = nextId + Len(v.accounts) - Len(vault.accounts)
    /\ UNCHANGED <<bundle, dlg>>

(* "NFA token" tab, and "Replace token" of the Edit dialog of any account: *)
(* the token's own account gets it.  A cached account keeps its group.     *)
ImportJwt ==
    /\ UserStep /\ nextId <= MaxIds
    /\ \E sid \in Sid \cup {NoSid}, hint \in Login \cup {NoLogin}, assign \in BOOLEAN :
        /\ ~assign => \E i \in DOMAIN vault.accounts :
                        vault.accounts[i].is_nfa /\ vault.accounts[i].cached
        /\ StoreVault(JwtImported(vault, Blank, sid, hint, assign))
    /\ UNCHANGED candidates

\* Local sign-ins with a readable token that the vault does not hold.
Listed(v) ==
    SetToSeq({l \in Login : LocalSid[l] # NoSid /\ FindExisting(v.accounts, LocalSid[l], l) = 0})

Rescan ==
    /\ UserStep
    /\ candidates' = Listed(vault)
    /\ UNCHANGED <<vault, bundle, dlg, nextId>>

Tagged(a) == [a EXCEPT !.cached = TRUE, !.group = Reserved(vault.groups, CACHED, "Cached")]

\* import_jwt_token of one candidate; then its account, found again by id,
\* moves to the Cached group and gets the tag.
TakeCandidate(v, l) ==
    LET fresh == [Blank EXCEPT !.id = nextId + Len(v.accounts) - Len(vault.accounts)]
        i     == FindExisting(v.accounts, LocalSid[l], l)
        id    == IF i = 0 THEN fresh.id ELSE v.accounts[i].id
        w     == JwtImported(v, fresh, LocalSid[l], l, FALSE)
        k     == SelectInSeq(w.accounts, LAMBDA a : a.id = id)
    IN  [w EXCEPT !.accounts[k] = Tagged(@)]

(* "Import selected": the list may be older than the vault is.             *)
ImportCached ==
    /\ UserStep /\ candidates # <<>> /\ nextId + Len(candidates) - 1 <= MaxIds
    /\ \E S \in (SUBSET Range(candidates)) \ {{}} :
        LET start == [accounts |-> vault.accounts, tag |-> TRUE,
                      groups |-> EnsureGroup(vault.groups, CACHED, "Cached")]
            done  == FoldLeft(TakeCandidate, start, Picked(candidates, S))
        IN  /\ StoreVault(done)
            /\ candidates' = Listed(done)

(* A full sign-in that ends in the background, dialogs or not.             *)
FullLogin ==
    /\ Step /\ nextId <= MaxIds
    /\ \E login \in Login, sid \in Sid :
        LET i == FindExisting(vault.accounts, sid, login)
            Apply(a) == [a EXCEPT !.password = TRUE, !.sid = sid,
                                  !.login = IF i = 0 THEN login ELSE @]
        IN  Store(Upsert(vault.accounts, i, Apply, Blank))

-----------------------------------------------------------------------------
(* Edits.                                                                  *)

\* The first account of that id, as find_account.
At(id) == SelectInSeq(vault.accounts, LAMBDA a : a.id = id)

\* "Save changes" of a full account: the name is free, the ID looked up if unknown.
Edited(a, login, pw) ==
    [a EXCEPT !.login = login, !.password = pw, !.sid = SidOf(@, login)]

SaveEdit ==
    /\ UserStep
    /\ \E i \in DOMAIN vault.accounts, login \in Login, pw \in BOOLEAN :
        /\ i = At(vault.accounts[i].id) /\ ~vault.accounts[i].is_nfa
        /\ Store([vault.accounts EXCEPT ![i] = Edited(@, login, pw)])

Converted(a) ==
    [a EXCEPT !.is_nfa = FALSE, !.cached = FALSE, !.group = IF @ = CACHED THEN NoGroup ELSE @]

ConvertToFull ==
    /\ UserStep
    /\ \E i \in DOMAIN vault.accounts :
        /\ i = At(vault.accounts[i].id) /\ vault.accounts[i].is_nfa /\ vault.accounts[i].cached
        /\ Store([vault.accounts EXCEPT ![i] = Converted(@)])

RemoveAccounts ==
    /\ UserStep /\ vault.accounts # <<>>
    /\ \E ids \in (SUBSET {vault.accounts[i].id : i \in DOMAIN vault.accounts}) \ {{}} :
        Store(Picked(vault.accounts, {a \in Range(vault.accounts) : a.id \notin ids}))

StoreGroups(accounts, groups) ==
    /\ vault' = [vault EXCEPT !.accounts = accounts, !.groups = groups]
    /\ UNCHANGED <<bundle, dlg, candidates, nextId>>

\* make_group_id: a name no vault or bundle has seen.
NewGroup ==
    /\ UserStep
    /\ \E g \in UserGroup, name \in GroupName :
        /\ \A v \in {vault} \cup (IF bundle = NoBundle THEN {} ELSE {bundle.content}) :
              \A i \in DOMAIN v.groups : v.groups[i].id # g
        /\ StoreGroups(vault.accounts, Append(vault.groups, [id |-> g, name |-> name]))

RenameGroup ==
    /\ UserStep
    /\ \E i \in DOMAIN vault.groups, name \in GroupName :
        StoreGroups(vault.accounts, [vault.groups EXCEPT ![i].name = name])

\* A row dropped on a group's header, or on "Ungrouped".
DropOnGroup ==
    /\ UserStep
    /\ \E i \in DOMAIN vault.accounts,
          g \in {vault.groups[k].id : k \in DOMAIN vault.groups} \cup {NoGroup} :
        /\ i = At(vault.accounts[i].id)
        /\ StoreGroups([vault.accounts EXCEPT ![i].group = g], vault.groups)

Ungroup(a, g) == IF a.group = g THEN [a EXCEPT !.group = NoGroup] ELSE a

DeleteGroup ==
    /\ UserStep
    /\ \E g \in {vault.groups[i].id : i \in DOMAIN vault.groups} :
        StoreGroups([i \in DOMAIN vault.accounts |-> Ungroup(vault.accounts[i], g)],
                    Picked(vault.groups, {h \in Range(vault.groups) : h.id # g}))

-----------------------------------------------------------------------------
(* The bundle dialogs.                                                     *)

\* No account picked exports the whole vault, its unused groups included.
Export ==
    /\ UserStep
    /\ \E ids \in SUBSET {vault.accounts[i].id : i \in DOMAIN vault.accounts} :
        bundle' = [content |-> IF ids = {} THEN vault ELSE Subset(vault, ids), damage |-> "none"]
    /\ UNCHANGED <<vault, dlg, candidates, nextId>>

PickBundle ==
    /\ UserStep /\ bundle # NoBundle
    /\ dlg' = [ClosedDialog EXCEPT !.stage = "picked"]
    /\ UNCHANGED <<vault, bundle, candidates, nextId>>

Unlock ==
    /\ Step /\ dlg.stage = "picked"
    /\ \E right \in BOOLEAN :
        LET error == LoadError(bundle, right)
        IN  dlg' = IF error # "none" THEN [dlg EXCEPT !.error = error]
                   ELSE [stage |-> "preview", error |-> "none", preview |-> bundle.content,
                         report |-> PreviewMerge(vault, bundle.content)]
    /\ UNCHANGED <<vault, bundle, candidates, nextId>>

\* The merge is of the bundle read at Unlock into the vault as it is now.
Import ==
    /\ Step /\ dlg.stage = "preview"
    /\ vault' = MergedVault(MergeInto(vault, dlg.preview))
    /\ dlg' = [dlg EXCEPT !.stage = "done", !.preview = NoVaultYet]
    /\ UNCHANGED <<bundle, candidates, nextId>>

CloseDialog ==
    /\ Step /\ dlg.stage # "closed"
    /\ dlg' = ClosedDialog
    /\ UNCHANGED <<vault, bundle, candidates, nextId>>

MergeNext ==
    \/ ImportMafile \/ ImportInfoDat \/ ImportJwt \/ Rescan \/ ImportCached \/ FullLogin
    \/ SaveEdit \/ ConvertToFull \/ RemoveAccounts
    \/ NewGroup \/ RenameGroup \/ DropOnGroup \/ DeleteGroup
    \/ Export \/ PickBundle \/ Unlock \/ Import \/ CloseDialog

MergeSpec == MergeInit /\ [][MergeNext]_mergeVars

-----------------------------------------------------------------------------

\* Types; a dialog that is open is about a file.
MergeTypeOK ==
    /\ vault \in Vault
    /\ bundle = NoBundle \/ bundle \in [content : Vault, damage : Damage]
    /\ dlg \in [stage : {"closed", "picked", "preview", "done"},
               error : {"none", "corrupt", "unsupported", "wrong password"},
               preview : Vault, report : [added : Nat, overwritten : Nat, tags : 0 .. 1]]
    /\ dlg.stage # "closed" => bundle # NoBundle
    /\ candidates \in Seq(Login)
    /\ nextId \in 1 .. MaxIds + 1

\* Wherever a vault is -- open, in a bundle, in the import dialog -- each of its
\* accounts refers to a group and a tag that vault holds: a partial export takes
\* along what its accounts refer to, a merge brings the missing ones, the token
\* imports make the reserved ones first, and a deleted group leaves no reference
\* behind (store.cpp subset_vault, merge_into, ensure_*; accounts_list_view.cpp:533).
ReferencesResolve ==
    /\ Resolves(vault) /\ Resolves(dlg.preview)
    /\ bundle # NoBundle => Resolves(bundle.content)

\* "A matched dst account is overwritten in place but keeps its existing ULID so
\* other references stay valid" (store.hpp:66): no import, merge or edit takes an
\* id away or moves it to another row; only a removal does.
IdsStay ==
    [][\/ RemoveAccounts
       \/ \A i \in DOMAIN vault.accounts : i \in DOMAIN vault'.accounts
                                          /\ vault'.accounts[i].id = vault.accounts[i].id]_mergeVars

\* "Non-mutating dry run of merge_into()" (store.hpp:70): what the dialog counts
\* is what a merge into the very same vault does.
PreviewIsExact ==
    dlg.stage = "preview" =>
        PreviewMerge(vault, dlg.preview) = MergeInto(vault, dlg.preview).report

\* Types, and every account's group is one the vault has.
MergeInv == MergeTypeOK /\ ReferencesResolve
=============================================================================
