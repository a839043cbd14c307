---------------------------- MODULE Connections ----------------------------
(***************************************************************************)
(* The company's connections to GitHub and Linear and the repositories     *)
(* imported through them: the connections page, the OAuth round trip       *)
(* (api/integrations), the ProviderConnection rows, the repository picker  *)
(* and the add-repository form.  The CEO may have several tabs of one      *)
(* browser open; what a request has read is kept in its tab.               *)
(***************************************************************************)
EXTENDS Naturals, Sequences, FiniteSets

CONSTANTS
    Browsing,    (* the tabs of the CEO's browser                           *)
    RepoNames,   (* the repositories the GitHub account has or may have     *)
    Hosted,      (* those it has from the beginning                         *)
    Linked,      (* may the company have had GitHub connected before        *)
    MaxTokens,   (* bound: tokens the providers issue                       *)
    MaxRounds,   (* bound: OAuth round trips started                        *)
    MaxAdded,    (* bound: repository records                               *)
    MaxHours,    (* bound: how far time goes                                *)
    MaxVisits    (* bound: pages opened                                     *)

VARIABLES
    hour,        (* the time; a signed state and a Linear token end with it *)
    tokens,      (* the tokens issued so far, and whether they still work   *)
    conns,       (* the ProviderConnection rows                             *)
    rounds,      (* the OAuth round trips started, with their nonces        *)
    cookie,      (* the nonce cookie of each provider, 0 for none           *)
    hosted,      (* the repositories at GitHub                              *)
    workspace,   (* the company has a workspace                             *)
    records,     (* the Repository rows, oldest first                       *)
    page,        (* what each tab shows, and what its request has read      *)
    visits       (* pages opened so far                                     *)

vars == <<hour, tokens, conns, rounds, cookie, hosted, workspace, records, page, visits>>

---------------------------------------------------------------------------
Providers == {"github", "linear"}

(* How a repository's URL may be written; the API's form is the first.     *)
Forms == {"html_url", "typed"}

(* Mutated form: the URLs are compared as they are.                        *)
NormalAsIs(record) == <<record.repo, record.form>>

(* The URL in lower case without a trailing slash or .git.                 *)
Normal(record) == record.repo

Rest == [at |-> "rest"]

None == 0

(* A token's scopes are all it was asked for, or lack "repo".              *)
Token(p, full) == [provider |-> p, full |-> full, ends |-> p = "linear", works |-> TRUE]

Expired(row) == row.ends # None /\ row.ends < hour

RowsOf(p) == {i \in DOMAIN conns : conns[i].provider = p}

(* The row findFirst returns, which orders nothing.                        *)
Found(p) == IF RowsOf(p) = {} THEN {None} ELSE RowsOf(p)

(* What the card of a provider says; the last of its rows counts.          *)
Card(p) ==
    IF RowsOf(p) = {} THEN [status |-> "disconnected", row |-> None]
    ELSE LET i == CHOOSE j \in RowsOf(p) : \A k \in RowsOf(p) : k <= j IN
         [status |-> IF conns[i].status = "connected" /\ Expired(conns[i])
                     THEN "expired" ELSE conns[i].status,
          row    |-> i]

(* getGitHubConnectionStatus, of a row or of none.                         *)
Connected(i) == i # None /\ conns[i].status = "connected" /\ ~Expired(conns[i])

Init ==
    /\ hour = 1
    /\ \/ tokens = <<>> /\ conns = <<>>
       \/ /\ Linked
          /\ tokens = <<Token("github", TRUE)>>
          /\ conns = <<[provider |-> "github", type |-> "oauth", status |-> "connected",
                        token |-> 1, full |-> TRUE, ends |-> None]>>
    /\ rounds = <<>>
    /\ cookie = [p \in Providers |-> None]
    /\ hosted = Hosted
    /\ workspace = FALSE
    /\ records = <<>>
    /\ page = [t \in Browsing |-> Rest]
    /\ visits = 0

(* A tab at rest opens a page.                                             *)
Go(t, to) ==
    /\ page' = [page EXCEPT ![t] = to]
    /\ page[t] = Rest => visits < MaxVisits
    /\ visits' = IF page[t] = Rest THEN visits + 1 ELSE visits

---------------------------------------------------------------------------
(* The connections page.                                                   *)

LoadProviderCards(t) ==
    /\ page[t] = Rest
    /\ Go(t, [at |-> "cards", cards |-> [p \in Providers |-> Card(p)]])
    /\ UNCHANGED <<hour, tokens, conns, rounds, cookie, hosted, workspace, records>>

CloseTab(t) ==
    /\ page[t].at \in {"cards", "picker", "provider"}
    /\ Go(t, Rest)
    /\ UNCHANGED <<hour, tokens, conns, rounds, cookie, hosted, workspace, records>>

(* The page, or the picker of a CEO who has to connect again, links to it. *)
MayConnect(t, p) ==
    \/ page[t].at = "cards" /\ page[t].cards[p].status # "connected"
    \/ page[t].at = "picker" /\ page[t].reauth /\ p = "github"

(* A signed state with a nonce, and the nonce in the provider's cookie.    *)
StartOAuth(t, p) ==
    /\ MayConnect(t, p)
    /\ Len(rounds) < MaxRounds
    /\ rounds' = Append(rounds, [provider |-> p, exp |-> hour])
    /\ cookie' = [cookie EXCEPT ![p] = Len(rounds) + 1]
    /\ Go(t, [at |-> "provider", round |-> Len(rounds) + 1])
    /\ UNCHANGED <<hour, tokens, conns, hosted, workspace, records>>

(* finish clears the cookie of the provider, whoever's nonce is in it.     *)
Finish(t, p) ==
    /\ cookie' = [cookie EXCEPT ![p] = None]
    /\ Go(t, Rest)

(* The callback: the state is still valid, and its nonce is the cookie's.  *)
StateHolds(n) == rounds[n].exp >= hour /\ cookie[rounds[n].provider] = n

Callback(t, denied) ==
    /\ page[t].at = "provider"
    /\ LET n == page[t].round
           p == rounds[n].provider IN
       IF ~StateHolds(n) \/ denied
       THEN Finish(t, p)
       ELSE /\ Go(t, [at |-> "exchange", provider |-> p])
            /\ UNCHANGED cookie
    /\ UNCHANGED <<hour, tokens, conns, rounds, hosted, workspace, records>>

(* The code against a token, and the account behind the token.             *)
ExchangeCode(t, full) ==
    /\ page[t].at = "exchange"
    /\ Len(tokens) < MaxTokens
    /\ full \/ page[t].provider = "github"
    /\ tokens' = Append(tokens, Token(page[t].provider, full))
    /\ Go(t, [at |-> "find", type |-> "oauth", provider |-> page[t].provider,
              token |-> Len(tokens) + 1, next |-> Rest])
    /\ UNCHANGED <<hour, conns, rounds, cookie, hosted, workspace, records>>

ExchangeFailed(t) ==
    /\ page[t].at = "exchange"
    /\ Finish(t, page[t].provider)
    /\ UNCHANGED <<hour, tokens, conns, rounds, hosted, workspace, records>>

(* A token the CEO made at the provider and pasted, without its scopes.    *)
ConnectProviderManualToken(t, p) ==
    /\ page[t].at = "cards" /\ page[t].cards[p].status # "connected"
    /\ Len(tokens) < MaxTokens
    /\ tokens' = Append(tokens, [Token(p, TRUE) EXCEPT !.ends = FALSE])
    /\ Go(t, [at |-> "find", type |-> "manual_token", provider |-> p,
              token |-> Len(tokens) + 1, next |-> Rest])
    /\ UNCHANGED <<hour, conns, rounds, cookie, hosted, workspace, records>>

(* upsertProviderConnection: find a row of the company, then write.        *)
FindConnection(t) ==
    /\ page[t].at = "find"
    /\ \E i \in Found(page[t].provider) :
         Go(t, [at |-> "upsert", type |-> page[t].type, provider |-> page[t].provider,
                token |-> page[t].token, next |-> page[t].next, row |-> i])
    /\ UNCHANGED <<hour, tokens, conns, rounds, cookie, hosted, workspace, records>>

RowFor(m) ==
    [provider |-> m.provider, status |-> "connected", token |-> m.token,
     type |-> IF m.type = "manual_token" THEN m.type ELSE "oauth",
     full |-> m.type # "manual_token" /\ tokens[m.token].full,
     ends |-> IF tokens[m.token].ends THEN hour ELSE None]

WriteConnection(t) ==
    /\ page[t].at = "upsert"
    /\ LET m == page[t] IN
       /\ conns' = IF m.row = None THEN Append(conns, RowFor(m))
                   ELSE [conns EXCEPT ![m.row] = RowFor(m)]
       /\ IF m.type = "oauth" THEN Finish(t, m.provider)
          ELSE Go(t, m.next) /\ UNCHANGED cookie
    /\ UNCHANGED <<hour, tokens, rounds, hosted, workspace, records>>

DisconnectProvider(t, p) ==
    /\ page[t].at = "cards" /\ page[t].cards[p].status = "connected"
    /\ conns' = [conns EXCEPT ![page[t].cards[p].row].status = "disconnected",
                              ![page[t].cards[p].row].token = None,
                              ![page[t].cards[p].row].ends = None]
    /\ Go(t, Rest)
    /\ UNCHANGED <<hour, tokens, rounds, cookie, hosted, workspace, records>>

---------------------------------------------------------------------------
(* The repository picker of the onboarding.                                *)

Picker(added, reauth) == [at |-> "picker", added |-> added, reauth |-> reauth, busy |-> FALSE]

(* loadGitHubRepositories, before GitHub is asked.                         *)
OpenPicker(t) ==
    /\ page[t].at \in {"rest", "reload"}
    /\ \E i \in Found("github") :
         Go(t, IF Connected(i) /\ conns[i].full
               THEN [at |-> "list", row |-> i, token |-> conns[i].token]
               ELSE Picker({}, TRUE))
    /\ UNCHANGED <<hour, tokens, conns, rounds, cookie, hosted, workspace, records>>

(* markNeedsReauth: the row is in error, whatever it holds by now.         *)
InError(i) == conns' = [conns EXCEPT ![i].status = "error"]

Rejected(t, i) ==
    /\ InError(i)
    /\ Go(t, Picker({}, TRUE))
    /\ UNCHANGED <<hour, tokens, rounds, cookie, hosted, workspace, records>>

(* Which of the listed are imported is asked after GitHub has answered.    *)
ListGitHubRepositories(t) ==
    /\ page[t].at = "list"
    /\ IF tokens[page[t].token].works
       THEN /\ Go(t, Picker({r \in hosted :
                        \E i \in DOMAIN records :
                            Normal(records[i]) = Normal([repo |-> r, form |-> "html_url"])},
                        FALSE))
            /\ UNCHANGED <<hour, tokens, conns, rounds, cookie, hosted, workspace, records>>
       ELSE Rejected(t, page[t].row)

ListFails(t) ==
    /\ page[t].at = "list"
    /\ Go(t, Picker({}, FALSE))
    /\ UNCHANGED <<hour, tokens, conns, rounds, cookie, hosted, workspace, records>>

MayPick(t, r) ==
    page[t].at = "picker" /\ ~page[t].reauth /\ ~page[t].busy /\ r \notin page[t].added

(* createAndImportRepository, unless the name is taken: GitHub makes the   *)
(* repository, and it is imported like one that was listed.                *)
CreateGitHubRepository(t, r) ==
    /\ MayPick(t, r)
    /\ r \notin hosted
    /\ \E i \in Found("github") :
         \/ /\ ~Connected(i) \/ ~conns[i].full
            /\ Go(t, Picker({}, TRUE))
            /\ UNCHANGED <<hour, tokens, conns, rounds, cookie, hosted, workspace, records>>
         \/ /\ Connected(i) /\ conns[i].full /\ ~tokens[conns[i].token].works
            /\ Rejected(t, i)
         \/ /\ Connected(i) /\ conns[i].full /\ tokens[conns[i].token].works
            /\ hosted' = hosted \cup {r}
            /\ Go(t, [at |-> "import", repo |-> r, then |-> [at |-> "reload"]])
            /\ UNCHANGED <<hour, tokens, conns, rounds, cookie, workspace, records>>

HandleImport(t, r) ==
    /\ MayPick(t, r)
    /\ r \in hosted
    /\ Go(t, [at |-> "import", repo |-> r, then |-> Picker(page[t].added \cup {r}, FALSE)])
    /\ UNCHANGED <<hour, tokens, conns, rounds, cookie, hosted, workspace, records>>

(* findRepositoryByUrl: an imported repository is not imported again.      *)
FindRepositoryByUrl(t) ==
    /\ page[t].at = "import"
    /\ LET new == [repo |-> page[t].repo, form |-> "html_url", by |-> "picker",
                   known |-> Len(records)] IN
       Go(t, IF \E i \in DOMAIN records : Normal(records[i]) = Normal(new)
             THEN page[t].then
             ELSE [at |-> "resolve", new |-> new, then |-> page[t].then])
    /\ UNCHANGED <<hour, tokens, conns, rounds, cookie, hosted, workspace, records>>

(* addRepository: the form looks for no earlier record.                    *)
AddRepository(t, r, f) ==
    /\ page[t] = Rest
    /\ Len(records) < MaxAdded
    /\ Go(t, [at |-> "resolve", then |-> Rest,
              new |-> [repo |-> r, form |-> f, by |-> "form", known |-> 0]])
    /\ UNCHANGED <<hour, tokens, conns, rounds, cookie, hosted, workspace, records>>

(* ensureDefaultWorkspace: find one, else create one.                      *)
ResolveWorkspace(t) ==
    /\ page[t].at = "resolve"
    /\ Go(t, [page[t] EXCEPT !.at = IF workspace THEN "create" ELSE "settle"])
    /\ UNCHANGED <<hour, tokens, conns, rounds, cookie, hosted, workspace, records>>

(* A company has one workspace per slug: the later creation throws, and    *)
(* the picker's button stays busy, as nothing catches it there.            *)
CreateWorkspace(t) ==
    /\ page[t].at = "settle"
    /\ workspace' = TRUE
    /\ Go(t, IF ~workspace THEN [page[t] EXCEPT !.at = "create"]
             ELSE IF page[t].new.by = "picker"
             THEN [Picker({}, FALSE) EXCEPT !.busy = TRUE]
             ELSE Rest)
    /\ UNCHANGED <<hour, tokens, conns, rounds, cookie, hosted, records>>

CreateRepositoryRecord(t) ==
    /\ page[t].at = "create"
    /\ Len(records) < MaxAdded
    /\ records' = Append(records, page[t].new)
    /\ Go(t, page[t].then)
    /\ UNCHANGED <<hour, tokens, conns, rounds, cookie, hosted, workspace>>

---------------------------------------------------------------------------
(* loadLinearProjects: an action for which there is no page yet.           *)

OpenLinear(t) ==
    /\ page[t] = Rest
    /\ \E i \in Found("linear") \ {None} :
         /\ conns[i].status # "disconnected"
         /\ Go(t, [at |-> "linear", row |-> i,
                   refresh |-> conns[i].type = "oauth" /\ Expired(conns[i])])
    /\ UNCHANGED <<hour, tokens, conns, rounds, cookie, hosted, workspace, records>>

(* A token that has expired is refreshed on the way, and written like one  *)
(* that came from a round trip: into the row found then.                   *)
RefreshLinearToken(t) ==
    /\ page[t].at = "linear" /\ page[t].refresh
    /\ Len(tokens) < MaxTokens
    /\ tokens' = Append(tokens, Token("linear", TRUE))
    /\ Go(t, [at |-> "find", type |-> "refreshed", provider |-> "linear",
              token |-> Len(tokens) + 1, next |-> [page[t] EXCEPT !.refresh = FALSE]])
    /\ UNCHANGED <<hour, conns, rounds, cookie, hosted, workspace, records>>

(* Without a refresh token the old one is tried.                           *)
ListLinearProjects(t) ==
    /\ page[t].at = "linear"
    /\ Go(t, Rest)
    /\ UNCHANGED <<hour, tokens, conns, rounds, cookie, hosted, workspace, records>>

(* Whatever fails, the row read at the start is in error.                  *)
LinearFails(t) ==
    /\ page[t].at = "linear"
    /\ InError(page[t].row)
    /\ Go(t, Rest)
    /\ UNCHANGED <<hour, tokens, rounds, cookie, hosted, workspace, records>>

---------------------------------------------------------------------------
(* The providers, and time.                                                *)

RevokeToken(k) ==
    /\ k \in DOMAIN tokens /\ tokens[k].works
    /\ tokens' = [tokens EXCEPT ![k].works = FALSE]
    /\ UNCHANGED <<hour, conns, rounds, cookie, hosted, workspace, records, page, visits>>

Tick ==
    /\ hour < MaxHours
    /\ hour' = hour + 1
    /\ UNCHANGED <<tokens, conns, rounds, cookie, hosted, workspace, records, page, visits>>

Next ==
    \/ \E t \in Browsing :
         \/ LoadProviderCards(t)
         \/ CloseTab(t)
         \/ \E p \in Providers :
              StartOAuth(t, p) \/ ConnectProviderManualToken(t, p) \/ DisconnectProvider(t, p)
         \/ \E b \in BOOLEAN : Callback(t, b) \/ ExchangeCode(t, b)
         \/ ExchangeFailed(t)
         \/ FindConnection(t)
         \/ WriteConnection(t)
         \/ OpenPicker(t)
         \/ ListGitHubRepositories(t)
         \/ ListFails(t)
         \/ OpenLinear(t)
         \/ RefreshLinearToken(t)
         \/ ListLinearProjects(t)
         \/ LinearFails(t)
         \/ \E r \in RepoNames :
              \/ CreateGitHubRepository(t, r)
              \/ HandleImport(t, r)
              \/ \E f \in Forms : AddRepository(t, r, f)
         \/ FindRepositoryByUrl(t)
         \/ ResolveWorkspace(t)
         \/ CreateWorkspace(t)
         \/ CreateRepositoryRecord(t)
    \/ \E k \in 1 .. MaxTokens : RevokeToken(k)
    \/ Tick

Spec == Init /\ [][Next]_vars

---------------------------------------------------------------------------
Statuses == {"connected", "disconnected", "error"}

(* The rows, cookies and records have their types.                         *)
TypeOK ==
    /\ hour \in 1 .. MaxHours
    /\ Len(tokens) <= MaxTokens /\ Len(rounds) <= MaxRounds
    /\ \A i \in DOMAIN conns :
         /\ conns[i].provider \in Providers /\ conns[i].status \in Statuses
         /\ conns[i].token \in 0 .. Len(tokens)
    /\ cookie \in [Providers -> 0 .. Len(rounds)]
    /\ Hosted \subseteq hosted /\ hosted \subseteq RepoNames /\ workspace \in BOOLEAN
    /\ \A i \in DOMAIN records : records[i].repo \in RepoNames /\ records[i].form \in Forms

(* A row that says connected holds a token of its provider and grants what *)
(* that token grants; one that says disconnected holds none, in whatever   *)
(* order the requests of two tabs have written it.                         *)
RowsFit ==
    \A i \in DOMAIN conns :
      /\ conns[i].status = "connected" =>
           /\ conns[i].token # None
           /\ tokens[conns[i].token].provider = conns[i].provider
           /\ conns[i].full => tokens[conns[i].token].full
      /\ conns[i].status = "disconnected" => conns[i].token = None

(* The picker makes no record of a repository of which it has seen one,    *)
(* however its URL was written.                                            *)
NeverAgain ==
    \A i \in DOMAIN records : records[i].by = "picker" =>
        \A j \in 1 .. records[i].known : records[j].repo # records[i].repo

(* What the picker marks as added is a repository of the company.          *)
AddedIsThere ==
    \A t \in Browsing : page[t].at = "picker" =>
        \A r \in page[t].added : \E i \in DOMAIN records : records[i].repo = r

(* Connections and repositories are what the pages say of them, also when  *)
(* two tabs connect, disconnect and import at once                         *)
(* (provider-connection-service.ts, integration-resources.ts).             *)
ConnectionsHonest == RowsFit /\ NeverAgain /\ AddedIsThere
============================================================================
