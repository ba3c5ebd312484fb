------------------------------- MODULE OAuth -------------------------------
(***************************************************************************)
(* The authorization server (internal/oauth): the consent page and the     *)
(* approvals it remembers, single-use authorization codes, refresh tokens  *)
(* that rotate inside a grant family, and the one state file the stores    *)
(* are written through to.                                                 *)
(*                                                                         *)
(* Every store has its own mutex, and writes the file only after releasing *)
(* it, so a request is a sequence of steps: it changes a store, waits for  *)
(* the file, snapshots the stores one after another, renames, and answers. *)
(* The process may end between any two of them.  A client publishes its    *)
(* own metadata document and may change it at any time, also between the   *)
(* page a person reads and the form they send.                             *)
(*                                                                         *)
(* Not in the model: the fields a code and a token carry along unread, the *)
(* signing of access tokens (jwt.go), malformed requests, which are        *)
(* refused before anything is read, and the order and the cap of the       *)
(* registry of dynamic clients.                                            *)
(***************************************************************************)
EXTENDS Naturals, Sequences, FiniteSets, SequencesExt

CONSTANTS
    Requests,       \* concurrent request goroutines
    Subjects,       \* the people who sign in, one browser each
    Verified,       \* clients known by a metadata document (CIMD)
    Registered,     \* clients that registered themselves (DCR)
    MaxVersion,     \* bound: revisions of a metadata document
    HistorySize,    \* maxGrantHistorySize
    MaxTokens,      \* bound: refresh tokens minted
    MaxCodes,       \* bound: authorization codes minted
    MaxFaults,      \* bound: process ends and state file writes that fail
    None

ASSUME OAuthAssumption ==
    /\ HistorySize \in Nat \ {0}
    /\ {MaxTokens, MaxCodes, MaxFaults} \subseteq Nat
    /\ MaxVersion \in Nat \ {0}
    /\ Verified \cap Registered = {}
    /\ None \notin Requests \cup Registered \cup Verified

Clients == Verified \cup Registered
Tokens  == 1..MaxTokens
Codes   == 1..MaxCodes
Versions == 1..MaxVersion
Keys    == Subjects \X Clients     \* ConsentKey; the resource is one

VARIABLES
    metaCache,  \* CIMDFetcher.cache: the revision cached, 0 for none
    page,       \* the consent page each browser's nonce cookie belongs to
    codes,      \* AuthCodeStore.codes: code -> what it is bound to
    store,      \* RefreshTokenStore: tokens, consumed, grants
    lapsed,     \* grants whose lifetime is over
    consent,    \* ConsentStore.records: key -> [shown, lapsed]
    disk,       \* the state file
    writer,     \* stateFile.mu and the snapshot being written
    req,        \* where each request stands
    minted,     \* tokens and codes handed out so far
    faults,     \* counts the faults
    failed      \* a state file write failed

vars == <<metaCache, page, codes, store, lapsed, consent, disk,
          writer, req, minted, faults, failed>>

\* What the properties remember: every approval a person gave, the tokens a
\* finished answer handed out or withdrew, the tokens any request took away.
VARIABLES approved, held, retired, taken, forgotten, forgetting

ghosts == <<approved, held, retired, taken, forgotten, forgetting>>

allVars == <<vars, ghosts>>

webVars   == <<metaCache, page>>
storeVars == <<store, minted, lapsed>>
fileVars  == <<disk, writer, faults, failed>>
heldVars  == <<approved, held, retired, taken>>
keyVars   == <<forgotten, forgetting>>

Empty == [x \in {} |-> 0]
Without(f, S) == [x \in DOMAIN f \ S |-> f[x]]
With(f, x, v) == [y \in DOMAIN f \cup {x} |-> IF y = x THEN v ELSE f[y]]

Idle == [pc |-> "idle"]

\* NewRefreshTokenStore, NewConsentStore, newClientRegistry.
NoTokens == [tokens |-> Empty, consumed |-> Empty, grants |-> Empty]
NoFile   == [store |-> NoTokens, consent |-> Empty]
NoWriter == [by |-> None, store |-> NoTokens, consent |-> Empty]

Init ==
    /\ metaCache = [c \in Verified |-> 0]
    /\ page = [s \in Subjects |-> None]
    /\ codes = Empty
    /\ store = NoTokens
    /\ lapsed = {}
    /\ consent = Empty
    /\ disk = NoFile
    /\ writer = NoWriter
    /\ req = [r \in Requests |-> Idle]
    /\ minted = [tokens |-> 0, codes |-> 0]
    /\ faults = 0
    /\ failed = FALSE
    /\ approved = {}
    /\ held = {}
    /\ retired = {}
    /\ taken = {}
    /\ forgotten = {}
    /\ forgetting = [r \in Requests |-> {}]

-----------------------------------------------------------------------------
(***************************************************************************)
(* Write-through.  A request that changed a store is "dirty" until it has  *)
(* the file's mutex; `out' are the tokens its change withdrew and `in' the *)
(* one it hands out, `keys' the approvals it has still to forget, `code'   *)
(* what it issues a code for once the file is written.                     *)
(***************************************************************************)
Dirty == [pc |-> "dirty", out |-> {}, in |-> {}, keys |-> {}, code |-> None]

\* What a request does once its write has been tried: forget the approvals it
\* must, issue the code it was approved for, or answer.
AfterWrite(q) ==
    IF q.keys # {} THEN [q EXCEPT !.pc = "forget"]
    ELSE IF q.code # None THEN [q EXCEPT !.pc = "issue"]
    ELSE Idle

\* The ghosts learn what an answer promised.
Answered(r, q, gone) ==
    IF AfterWrite(q) = Idle
    THEN /\ retired' = retired \cup q.out
         /\ held' = held \cup q.in
         /\ forgotten' = forgotten \cup gone
         /\ forgetting' = [forgetting EXCEPT ![r] = {}]
    ELSE /\ forgetting' = [forgetting EXCEPT ![r] = gone]
         /\ UNCHANGED <<retired, held, forgotten>>

\* A writer that finds the file busy leaves the writing to the one that has it.
SnapshotCoalesced(r) ==
    /\ req[r].pc = "dirty"
    /\ IF writer.by = None
       THEN /\ writer' = [by |-> r, store |-> store, consent |-> Empty]
            /\ req' = [req EXCEPT ![r].pc = "snapshot"]
            /\ UNCHANGED <<held, retired, keyVars>>
       ELSE /\ req' = [req EXCEPT ![r] = AfterWrite(@)]
            /\ Answered(r, req[r], forgetting[r])
            /\ UNCHANGED writer
    /\ UNCHANGED <<codes, consent, disk, faults, failed, approved, taken, webVars,
                   storeVars>>

\* A writer that does not wait for its turn.
SnapshotUnlocked(r) ==
    /\ req[r].pc = "dirty"
    /\ writer' = [by |-> r, store |-> store, consent |-> Empty]
    /\ req' = [req EXCEPT ![r].pc = "snapshot"]
    /\ UNCHANGED <<codes, consent, disk, faults, failed, webVars, storeVars,
                   ghosts>>

\* stateFile.write takes the mutex, then snapshots the tokens; the consent
\* records are read in a critical section of their own.
SnapshotTokens(r) ==
    /\ req[r].pc = "dirty"
    /\ writer.by = None
    /\ writer' = [by |-> r, store |-> store, consent |-> Empty]
    /\ req' = [req EXCEPT ![r].pc = "snapshot"]
    /\ UNCHANGED <<codes, consent, disk, faults, failed, webVars, storeVars,
                   ghosts>>

SnapshotConsent(r) ==
    /\ req[r].pc = "snapshot"
    /\ writer.by = r
    /\ writer' = [writer EXCEPT !.consent = consent]
    /\ req' = [req EXCEPT ![r].pc = "rename"]
    /\ UNCHANGED <<codes, consent, disk, faults, failed, webVars, storeVars,
                   ghosts>>

\* writeState: synced temporary file, rename, synced directory.  An error is
\* logged and swallowed.
WriteState(r) ==
    /\ req[r].pc = "rename"
    /\ \/ /\ disk' = [store |-> writer.store, consent |-> writer.consent]
          /\ UNCHANGED <<faults, failed>>
       \/ /\ faults < MaxFaults
          /\ faults' = faults + 1
          /\ failed' = TRUE
          /\ UNCHANGED disk
    /\ writer' = NoWriter
    /\ req' = [req EXCEPT ![r] = AfterWrite(@)]
    /\ Answered(r, req[r], forgetting[r])
    /\ UNCHANGED <<codes, consent, approved, taken, webVars, storeVars>>

-----------------------------------------------------------------------------
(***************************************************************************)
(* Clients: metadata documents and their cache.                            *)
(***************************************************************************)
\* A cached document outlives its response's lifetime, or evictFor drops it.
CacheLapses(c) ==
    /\ metaCache[c] # 0
    /\ metaCache' = [metaCache EXCEPT ![c] = 0]
    /\ UNCHANGED <<page, codes, consent, req, storeVars, fileVars, ghosts>>

\* CIMDFetcher.Fetch: the cached revision, else whatever the client publishes at
\* that moment, which is cached unless its response forbids it.
Fetch(c, meta) ==
    /\ metaCache[c] \in {0, meta}
    /\ metaCache' \in {metaCache, [metaCache EXCEPT ![c] = meta]}

\* resolveClientMeta: a registered client has the one revision it registered.
Resolve(c, meta) ==
    \/ c \in Verified /\ Fetch(c, meta)
    \/ c \in Registered /\ meta = 1 /\ UNCHANGED metaCache

-----------------------------------------------------------------------------
(***************************************************************************)
(* The authorize endpoint.                                                 *)
(***************************************************************************)
\* ConsentStore.Allows.
Allows(k, shown) == k \in DOMAIN consent /\ consent[k] = [shown |-> shown, lapsed |-> FALSE]

\* ConsentStore.Remember: re-approving what is remembered changes nothing.
Remember(k, shown) ==
    IF Allows(k, shown) THEN consent ELSE With(consent, k, [shown |-> shown, lapsed |-> FALSE])

\* renderConsentPage binds the page to a fresh nonce in the browser's cookie.
RenderConsentPage(k, meta) == page' = [page EXCEPT ![k[1]] = [key |-> k, shown |-> meta]]

\* verifyCSRFToken: only the form of the page the cookie belongs to verifies,
\* with every field as it was rendered.
VerifyCSRF(s) == page[s] # None

\* AuthCodeStore.Issue.
IssueCode(k, meta) ==
    /\ minted.codes < MaxCodes
    /\ minted' = [minted EXCEPT !.codes = @ + 1]
    /\ codes' = With(codes, minted.codes + 1, [key |-> k, meta |-> meta])

\* handleAuthorizeGET: a remembered approval of exactly this document issues a
\* code silently; anything else renders the page, whose nonce replaces the
\* browser's cookie.  A fetch that takes its time ends like a cached document.
AuthorizeGET(r, k) ==
    /\ req[r] = Idle
    /\ \E meta \in Versions :
        /\ Resolve(k[2], meta)
        /\ IF k[2] \in Verified /\ Allows(k, meta)
           THEN IssueCode(k, meta) /\ UNCHANGED page
           ELSE RenderConsentPage(k, meta) /\ UNCHANGED <<codes, minted>>
    /\ UNCHANGED <<store, lapsed, consent, req, fileVars, ghosts>>

\* handleAuthorizePOST takes the form of the page the cookie's nonce verifies,
\* and resolves the client again.  "Deny", and every refusal after the CSRF
\* check, clears the cookie.
DenyPOST(r, s) ==
    /\ req[r] = Idle
    /\ VerifyCSRF(s)
    /\ page' = [page EXCEPT ![s] = None]
    /\ \E meta \in Versions : Resolve(page[s].key[2], meta)
    /\ UNCHANGED <<codes, consent, req, storeVars, fileVars, ghosts>>

\* An approval taken for whatever the document says now.
StaleAccepted(shown, meta) == FALSE

\* The document changed since the page was rendered.
Stale(shown, meta) == meta # shown

\* The page is shown again, from the fresh document.
RepromptPOST(r, s) ==
    /\ req[r] = Idle
    /\ VerifyCSRF(s)
    /\ \E meta \in Versions :
        /\ Resolve(page[s].key[2], meta)
        /\ Stale(page[s].shown, meta)
        /\ RenderConsentPage(page[s].key, meta)
    /\ UNCHANGED <<codes, consent, req, storeVars, fileVars, ghosts>>

\* The approval: ConsentStore.Remember records a verified client as it was
\* shown, and writes the file when that changed anything.  The browser may send
\* the form again before the answer clears its cookie.
ApprovePOST(r, s) ==
    LET key == page[s].key
        shown == page[s].shown
        records == IF key[2] \in Verified THEN Remember(key, shown) ELSE consent IN
    /\ req[r] = Idle
    /\ VerifyCSRF(s)
    /\ \E meta \in Versions :
        LET next == [Dirty EXCEPT !.code = [key |-> key, meta |-> meta]] IN
        /\ Resolve(key[2], meta)
        /\ ~Stale(shown, meta)
        /\ req' = [req EXCEPT ![r] = IF records # consent THEN next ELSE AfterWrite(next)]
    /\ page' \in {page, [page EXCEPT ![s] = None]}
    /\ consent' = records
    /\ approved' = approved \cup {<<key, shown>>}
    /\ forgotten' = forgotten \ {key}
    /\ forgetting' = [p \in Requests |-> forgetting[p] \ {key}]
    /\ UNCHANGED <<codes, held, retired, taken, storeVars, fileVars>>

\* issueCodeAndRedirect after the approval was written.
IssueAfterApproval(r) ==
    /\ req[r].pc = "issue"
    /\ IssueCode(req[r].code.key, req[r].code.meta)
    /\ req' = [req EXCEPT ![r] = Idle]
    /\ UNCHANGED <<store, lapsed, consent, webVars, fileVars, ghosts>>

-----------------------------------------------------------------------------
(***************************************************************************)
(* The token endpoint.                                                     *)
(***************************************************************************)
NewToken == minted.tokens + 1

\* RefreshTokenStore.Issue; a family is named by its first token.
Issued(k) ==
    [tokens   |-> With(store.tokens, NewToken, [grant |-> NewToken, key |-> k]),
     consumed |-> store.consumed,
     grants   |-> With(store.grants, NewToken, <<NewToken>>)]

\* AuthCodeStore.Redeem deletes the code whatever comes of it.
Redeemed(c) == Without(codes, {c})

\* handleAuthorizationCodeGrant with a client id, redirect URI, resource and
\* PKCE verifier that match.
RedeemCode(r, c) ==
    /\ req[r] = Idle
    /\ c \in DOMAIN codes
    /\ minted.tokens < MaxTokens
    /\ codes' = Redeemed(c)
    /\ store' = Issued(codes[c].key)
    /\ minted' = [minted EXCEPT !.tokens = NewToken]
    /\ req' = [req EXCEPT ![r] = [Dirty EXCEPT !.in = {NewToken}]]
    /\ UNCHANGED <<lapsed, consent, webVars, fileVars, heldVars, keyVars>>

\* A code that expired, or was presented with something that does not match.
SpendCode(c) ==
    /\ c \in DOMAIN codes
    /\ codes' = Redeemed(c)
    /\ UNCHANGED <<consent, req, webVars, storeVars, fileVars, ghosts>>

\* revokeGrantLocked.
Family(g) == Range(store.grants[g])

Revoked(st, gs) ==
    LET hashes == UNION {Range(st.grants[g]) : g \in gs} IN
    [tokens   |-> Without(st.tokens, hashes),
     consumed |-> Without(st.consumed, hashes),
     grants   |-> Without(st.grants, gs)]

\* The identity revokeGrantLocked returns: the one of the family's live token.
Owners(gs) ==
    {store.tokens[t].key :
        t \in {u \in DOMAIN store.tokens : store.tokens[u].grant \in gs
                                          /\ u \in Family(store.tokens[u].grant)}}

\* A rotation whose predecessor stays in the store.
RotatedKeeping(t) ==
    LET entry == store.tokens[t] IN
    [tokens   |-> With(store.tokens, NewToken, entry),
     consumed |-> With(store.consumed, t, entry.grant),
     grants   |-> [store.grants EXCEPT ![entry.grant] = Append(@, NewToken)]]

\* rotate, step 5: the history keeps the newest hashes, and an evicted one is
\* no longer known as consumed.
Rotated(t) ==
    LET entry == store.tokens[t]
        g == entry.grant
        hashes == Append(store.grants[g], NewToken)
        overflow == IF Len(hashes) > HistorySize THEN Len(hashes) - HistorySize ELSE 0 IN
    [tokens   |-> With(Without(store.tokens, {t}), NewToken, entry),
     consumed |-> Without(With(store.consumed, t, g), Range(SubSeq(hashes, 1, overflow))),
     grants   |-> [store.grants EXCEPT ![g] = SubSeq(hashes, overflow + 1, Len(hashes))]]

\* handleRefreshTokenGrant with a live token whose client and resource match.
Rotate(r, t) ==
    /\ req[r] = Idle
    /\ t \in DOMAIN store.tokens
    /\ t \notin DOMAIN store.consumed
    /\ store.tokens[t].grant \notin lapsed
    /\ minted.tokens < MaxTokens
    /\ store' = Rotated(t)
    /\ minted' = [minted EXCEPT !.tokens = NewToken]
    /\ taken' = taken \cup {t}
    /\ req' = [req EXCEPT ![r] = [Dirty EXCEPT !.in = {NewToken}, !.out = {t}]]
    /\ UNCHANGED <<codes, lapsed, consent, approved, held, retired, webVars,
                   fileVars, keyVars>>

\* A withdrawal that is answered before it is written.
WithdrawInMemory(r, gs, keys) ==
    /\ store' = Revoked(store, gs)
    /\ taken' = taken \cup UNION {Family(g) : g \in gs}
    /\ retired' = retired \cup UNION {Family(g) : g \in gs}
    /\ UNCHANGED <<codes, lapsed, consent, minted, req, approved, held, webVars, fileVars,
                   keyVars>>

\* Withdraw families gs from the store, and forget `keys' after the write.
Withdraw(r, gs, keys) ==
    /\ store' = Revoked(store, gs)
    /\ taken' = taken \cup UNION {Family(g) : g \in gs}
    /\ req' = [req EXCEPT ![r] =
                  [Dirty EXCEPT !.out = UNION {Family(g) : g \in gs}, !.keys = keys]]
    /\ UNCHANGED <<codes, lapsed, consent, minted, approved, held, retired, webVars,
                   fileVars, keyVars>>

\* rotate, step 2: a consumed token presented again burns its family.
DetectTheft(r, t) ==
    /\ req[r] = Idle
    /\ t \in DOMAIN store.consumed
    /\ Withdraw(r, {store.consumed[t]}, Owners({store.consumed[t]}))

\* rotate, step 4: an expired token tears its family down, and no approval.
RotateExpired(r, t) ==
    /\ req[r] = Idle
    /\ t \in DOMAIN store.tokens
    /\ store.tokens[t].grant \in lapsed
    /\ Withdraw(r, {store.tokens[t].grant}, {})

-----------------------------------------------------------------------------
(***************************************************************************)
(* Revocation.                                                             *)
(***************************************************************************)
\* RevokeGrant looks a token up among the live ones, then the consumed ones.
GrantOf(t) == IF t \in DOMAIN store.tokens THEN store.tokens[t].grant ELSE store.consumed[t]

HandleRevoke(r, t) ==
    /\ req[r] = Idle
    /\ t \in DOMAIN store.tokens \cup DOMAIN store.consumed
    /\ Withdraw(r, {GrantOf(t)}, Owners({GrantOf(t)}))

\* RevokeSubject for the families with a live token; ForgetSubject follows.
RevokeSubject(r, s) ==
    LET gs == {store.tokens[t].grant : t \in {u \in DOMAIN store.tokens :
                                                store.tokens[u].key[1] = s}} IN
    /\ req[r] = Idle
    /\ gs # {}
    /\ Withdraw(r, gs, {k \in Keys : k[1] = s})

\* An approval dropped from memory and left in the file.
ForgetInMemory(r) ==
    LET rest == [req[r] EXCEPT !.keys = {}]
        gone == req[r].keys \cap DOMAIN consent IN
    /\ req[r].pc = "forget"
    /\ consent' = Without(consent, gone)
    /\ req' = [req EXCEPT ![r] = AfterWrite(rest)]
    /\ Answered(r, rest, gone)
    /\ UNCHANGED <<codes, approved, taken, webVars, storeVars, fileVars>>

\* ConsentStore.Forget and ForgetSubject: a record that was not there is not
\* written.
Forget(r) ==
    LET rest == [req[r] EXCEPT !.keys = {}]
        gone == req[r].keys \cap DOMAIN consent IN
    /\ req[r].pc = "forget"
    /\ consent' = Without(consent, gone)
    /\ IF gone = {}
       THEN /\ req' = [req EXCEPT ![r] = AfterWrite(rest)]
            /\ Answered(r, rest, {})
       ELSE /\ req' = [req EXCEPT ![r] = [rest EXCEPT !.pc = "dirty"]]
            /\ forgetting' = [forgetting EXCEPT ![r] = gone]
            /\ UNCHANGED <<retired, held, forgotten>>
    /\ UNCHANGED <<codes, approved, taken, webVars, storeVars, fileVars>>

-----------------------------------------------------------------------------
(***************************************************************************)
(* Time and the process's end.                                             *)
(***************************************************************************)
GrantLapses(g) ==
    /\ g \in DOMAIN store.grants \ lapsed
    /\ lapsed' = lapsed \cup {g}
    /\ UNCHANGED <<codes, store, consent, req, minted, webVars, fileVars, ghosts>>

\* ConsentStore.expired.
ConsentLapses(k) ==
    /\ k \in DOMAIN consent
    /\ ~consent[k].lapsed
    /\ consent' = [consent EXCEPT ![k].lapsed = TRUE]
    /\ UNCHANGED <<codes, req, webVars, storeVars, fileVars, ghosts>>

\* RefreshTokenStore.Restore: families whose live token has not expired.
RestoredTokens(snap) ==
    LET live == {t \in DOMAIN snap.tokens : snap.tokens[t].grant \notin lapsed}
        gs == {snap.tokens[t].grant : t \in live} IN
    [tokens   |-> [t \in live |-> snap.tokens[t]],
     consumed |-> [t \in {u \in DOMAIN snap.consumed : snap.consumed[u] \in gs} |->
                      snap.consumed[t]],
     grants   |-> [g \in DOMAIN snap.grants \cap gs |-> snap.grants[g]]]

\* ConsentStore.Restore.
RestoredConsent(records) ==
    [k \in {j \in DOMAIN records : ~records[j].lapsed} |-> records[k]]

\* The process ends, and NewServer reads the file. Codes, the cache, the rate
\* limits and the requests were in memory only; the page is the browser's.
Crash ==
    /\ faults < MaxFaults
    /\ faults' = faults + 1
    /\ store' = RestoredTokens(disk.store)
    /\ consent' = RestoredConsent(disk.consent)
    /\ codes' = Empty
    /\ metaCache' = [c \in Verified |-> 0]
    /\ writer' = NoWriter
    /\ req' = [r \in Requests |-> Idle]
    /\ forgetting' = [r \in Requests |-> {}]
    /\ taken' = taken \cup (DOMAIN disk.store.tokens \ DOMAIN store'.tokens)
    /\ UNCHANGED <<page, lapsed, disk, minted, failed, approved, held, retired,
                   forgotten>>

-----------------------------------------------------------------------------
Next ==
    \/ \E r \in Requests :
        \/ SnapshotTokens(r) \/ SnapshotConsent(r) \/ WriteState(r)
        \/ IssueAfterApproval(r) \/ Forget(r)
        \/ \E k \in Keys : AuthorizeGET(r, k)
        \/ \E s \in Subjects : DenyPOST(r, s) \/ RepromptPOST(r, s) \/ ApprovePOST(r, s)
                               \/ RevokeSubject(r, s)
        \/ \E c \in Codes : RedeemCode(r, c)
        \/ \E t \in Tokens : Rotate(r, t) \/ DetectTheft(r, t) \/ RotateExpired(r, t)
                             \/ HandleRevoke(r, t)
    \/ \E c \in Verified : CacheLapses(c)
    \/ \E c \in Codes : SpendCode(c)
    \/ \E g \in Tokens : GrantLapses(g)
    \/ \E k \in Keys : ConsentLapses(k)
    \/ Crash

Spec == Init /\ [][Next]_allVars

-----------------------------------------------------------------------------
\* Each variable holds what the code's type allows; the file's mutex is held by
\* a request that is writing.
TypeOK ==
    /\ DOMAIN codes \subseteq Codes
    /\ \A c \in DOMAIN codes : codes[c] \in [key : Keys, meta : Versions]
    /\ DOMAIN store.tokens \subseteq 1..minted.tokens
    /\ \A k \in DOMAIN consent : consent[k] \in [shown : Versions, lapsed : BOOLEAN]
    /\ DOMAIN consent \subseteq Keys
    /\ writer.by \in Requests \cup {None}
    /\ \A r \in Requests : req[r].pc \in {"snapshot", "rename"} <=> writer.by = r

\* The comment on revokeGrantLocked, "a family has exactly one" live token, and
\* what theft detection needs: the history is its consumed tokens followed by
\* the live one, in memory and in the file alike.
SoundFamilies(st) ==
    /\ \A t \in DOMAIN st.tokens : st.tokens[t].grant \in DOMAIN st.grants
    /\ \A t \in DOMAIN st.consumed : st.consumed[t] \in DOMAIN st.grants
    /\ \A g \in DOMAIN st.grants :
        LET h == st.grants[g] IN
        /\ {t \in DOMAIN st.tokens : st.tokens[t].grant = g} = {h[Len(h)]}
        /\ {t \in DOMAIN st.consumed : st.consumed[t] = g} = Range(Front(h))

OneLivePerFamily == SoundFamilies(store) /\ SoundFamilies(disk.store)

\* A token whose rotation or revocation was answered is never usable again,
\* also after a crash, unless a state file write failed.
WithdrawnStaysOut ==
    ~failed => retired \cap (DOMAIN store.tokens \cup DOMAIN disk.store.tokens) = {}

\* A token a client was handed survives a crash until something takes it away.
HeldIsDurable ==
    ~failed => \A t \in held \ taken : t \in DOMAIN disk.store.tokens

\* Every code was issued for a document a person approved as it stood, for that
\* client; a remembered approval never covers a document that changed since.
ApprovedAsShown ==
    \A c \in DOMAIN codes : <<codes[c].key, codes[c].meta>> \in approved

\* A revocation or a theft forgets the approval: it is remembered again only
\* after a person approves again.
ForgottenStaysForgotten ==
    ~failed => forgotten \cap (DOMAIN consent \cup DOMAIN disk.consent) = {}

\* What a client was told of its tokens and approvals a crash does not take
\* back: neither what was withdrawn nor what was given.
AnswersAreDurable == TypeOK /\ WithdrawnStaysOut /\ HeldIsDurable /\ ForgottenStaysForgotten
=============================================================================
