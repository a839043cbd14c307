------------------------------ MODULE Founding ------------------------------
(***************************************************************************)
(* How a company comes to be: the onboarding page founds it in one         *)
(* transaction (onboarding/page.tsx, company-seed.ts), the onboarding      *)
(* flow, the setup wizard and the settings page write its settings.  A     *)
(* founder may have several tabs open, each with a form filled when it was *)
(* opened.                                                                 *)
(***************************************************************************)
EXTENDS Naturals, FiniteSets

CONSTANTS
    Founders,    (* the people who sign in                                  *)
    FoundingTabs, (* browser tabs                                           *)
    Whose,       (* the founder a tab belongs to                            *)
    Mailless,    (* founders whose account has no e-mail address            *)
    NoCompany,   (* not a company                                           *)
    MaxClicks    (* bound: what is clicked on the pages of a company        *)

VARIABLES
    users,       (* the founders with a User row                            *)
    roles,       (* the tabs whose transaction made the V1 Role rows        *)
    companies,   (* the Company a tab's transaction has committed           *)
    tab,         (* what a tab is at, its open transaction, its form        *)
    chosen,      (* the founders who have clicked "autonomous" somewhere    *)
    clicks       (* clicks so far                                           *)

vars == <<users, roles, companies, tab, chosen, clicks>>

---------------------------------------------------------------------------
(* The company every founder gets.                                         *)

Departments == {"executive", "product", "engineering", "quality", "operations"}

Roles ==
    {"Chief Technology Officer", "Product Manager", "Tech Lead", "Frontend Engineer",
     "Backend Engineer", "AI Engineer", "Infrastructure Engineer", "Reviewer", "QA Engineer",
     "Security Engineer", "DevOps Engineer", "Release Manager", "Monitoring Engineer",
     "Technical Writer"}

(* Every employee but the CTO has the name of its role.                    *)
Employees == {"CTO"} \cup (Roles \ {"Chief Technology Officer"})

RoleOf(e) == IF e = "CTO" THEN "Chief Technology Officer" ELSE e

DepartmentOf(e) ==
    CASE e = "CTO"                                              -> "executive"
      [] e \in {"Product Manager", "Technical Writer"}          -> "product"
      [] e \in {"Tech Lead", "Frontend Engineer", "Backend Engineer", "AI Engineer",
                "Infrastructure Engineer"}                      -> "engineering"
      [] e \in {"Reviewer", "QA Engineer", "Security Engineer"} -> "quality"
      [] OTHER                                                  -> "operations"

ReportsTo(e) ==
    CASE e = "CTO"                 -> "nobody"
      [] e = "Technical Writer"    -> "Product Manager"
      [] e = "Monitoring Engineer" -> "Release Manager"
      [] e \in {"Frontend Engineer", "Backend Engineer", "AI Engineer",
                "Infrastructure Engineer", "Reviewer", "QA Engineer"} -> "Tech Lead"
      [] OTHER                     -> "CTO"

Memories == {"company", "architecture", "product", "security", "operations"}

---------------------------------------------------------------------------
(* Onboarding.                                                             *)

Steps == <<"company", "provider", "repository", "outcome">>

StepIds == {Steps[i] : i \in 1 .. 4}

Named == {"My Company", "Acme"}

Styles == {"manual", "assist", "delegate", "autonomous"}

Planners == {"default", "deterministic", "ai"}

(* What a page shows when the company has no settings row.                 *)
ShownStyle(company, fallback) ==
    IF company.style = "none" THEN fallback ELSE company.style

Completed(company) ==
    company.done \cup (IF company.name # "My Company" THEN {"company"} ELSE {})

(* The first step that is not complete, the last one once all are.         *)
CurrentStep(company) ==
    LET open == {i \in 1 .. 4 : Steps[i] \notin Completed(company)}
    IN  IF open = {} THEN "outcome"
        ELSE Steps[CHOOSE i \in open : \A j \in open : i <= j]

BlankForm == [name |-> "My Company", style |-> "assist", planner |-> "default"]

Idle == [at |-> "away", tx |-> NoCompany, form |-> BlankForm, step |-> "company"]

Init ==
    /\ users = {} /\ roles = {}
    /\ companies = [t \in FoundingTabs |-> NoCompany]
    /\ tab = [t \in FoundingTabs |-> Idle]
    /\ chosen = {} /\ clicks = 0

Committed(f) == {t \in FoundingTabs : companies[t] # NoCompany /\ companies[t].owner = f}

(* The company a page finds for its user.                                  *)
Mine(t) == CHOOSE c \in Committed(Whose[t]) : TRUE

(* The local User row: made on first sight, and no two share an address,   *)
(* the empty one included.  When Clerk is down or the address is taken,    *)
(* the page fails and nothing has changed.                                 *)
GetCurrentUser(t) ==
    /\ tab[t].at = "away"
    /\ Whose[t] \in users \/ Whose[t] \notin Mailless \/ users \cap Mailless = {}
    /\ users' = users \cup {Whose[t]}
    /\ tab' = [tab EXCEPT ![t].at = "known"]
    /\ UNCHANGED <<roles, companies, chosen, clicks>>

LookForCompany(t) ==
    /\ tab[t].at = "known"
    /\ tab' = [tab EXCEPT ![t].at = IF Committed(Whose[t]) = {} THEN "founding" ELSE "here"]
    /\ UNCHANGED <<users, roles, companies, chosen, clicks>>

InTransaction(t) == tab[t].tx # NoCompany

(* An open transaction makes a second insert of its slug wait.             *)
SlugHeld(t) == \E u \in FoundingTabs \ {t} : InTransaction(u) /\ Whose[u] = Whose[t]

(* Mutated form: the slug says nothing of its founder.                     *)
SlugTakenNever(t) == FALSE

SlugTaken(t) == Committed(Whose[t]) # {}

InsertCompany(t) ==
    /\ tab[t].at = "founding" /\ ~SlugHeld(t)
    /\ tab' = IF SlugTaken(t) THEN [tab EXCEPT ![t] = Idle]
              ELSE [tab EXCEPT ![t].at = "inserted",
                               ![t].tx = [owner |-> Whose[t], name |-> "My Company",
                                          style |-> "assist", planner |-> "default",
                                          departments |-> Departments, ownRoles |-> FALSE,
                                          staff |-> {}, roleRows |-> {}, memories |-> {},
                                          done |-> {}]]
    /\ UNCHANGED <<users, roles, companies, chosen, clicks>>

(* Roles belong to no company: made by whoever sees none.                  *)
SeedRoles(t) ==
    /\ tab[t].at = "inserted"
    /\ tab' = [tab EXCEPT ![t].at = "roles", ![t].tx.ownRoles = (roles = {})]
    /\ UNCHANGED <<users, roles, companies, chosen, clicks>>

(* Where several rows have the name of a role any of them may come last.   *)
SeedEmployees(t) ==
    /\ tab[t].at = "roles"
    /\ \E r \in roles \cup (IF tab[t].tx.ownRoles THEN {t} ELSE {}) :
          tab' = [tab EXCEPT
                    ![t].at = "staffed",
                    ![t].tx.staff = Employees, ![t].tx.roleRows = {r},
                    ![t].tx.memories = Memories]
    /\ UNCHANGED <<users, roles, companies, chosen, clicks>>

Commit(t) ==
    /\ tab[t].at = "staffed"
    /\ companies' = [companies EXCEPT ![t] = tab[t].tx]
    /\ roles' = IF tab[t].tx.ownRoles THEN roles \cup {t} ELSE roles
    /\ tab' = [tab EXCEPT ![t].at = "here", ![t].tx = NoCompany]
    /\ UNCHANGED <<users, chosen, clicks>>

(* The server dies or a statement fails: everything is rolled back.        *)
Abort(t) ==
    /\ InTransaction(t)
    /\ tab' = [tab EXCEPT ![t] = Idle]
    /\ UNCHANGED <<users, roles, companies, chosen, clicks>>

---------------------------------------------------------------------------
(* The pages of a company that exists, and the forms on them.              *)

Click == clicks < MaxClicks /\ clicks' = clicks + 1

Fill(t, page, fallback) ==
    /\ tab[t].at = "here" /\ Click
    /\ LET company == companies[Mine(t)]
       IN  tab' = [tab EXCEPT ![t].at = page, ![t].step = CurrentStep(company),
                              ![t].form = [name    |-> company.name,
                                           style   |-> ShownStyle(company, fallback),
                                           planner |-> company.planner]]
    /\ UNCHANGED <<users, roles, companies, chosen>>

OpenPage(t) ==
    \/ Fill(t, "onboarding", "autonomous")
    \/ Fill(t, "setup", "autonomous")
    \/ Fill(t, "settings", "assist")

(* What the open form lets one choose.                                     *)
ChooseStyle(t, style) ==
    /\ \/ tab[t].at = "onboarding" /\ tab[t].step = "company"
       \/ tab[t].at \in {"setup", "settings"}
    /\ style # tab[t].form.style /\ Click
    /\ tab' = [tab EXCEPT ![t].form.style = style]
    /\ chosen' = IF style = "autonomous" THEN chosen \cup {Whose[t]} ELSE chosen
    /\ UNCHANGED <<users, roles, companies>>

EnterName(t, name) ==
    /\ tab[t].at = "onboarding" /\ tab[t].step = "company"
    /\ name # tab[t].form.name /\ Click
    /\ tab' = [tab EXCEPT ![t].form.name = name]
    /\ UNCHANGED <<users, roles, companies, chosen>>

ChoosePlanner(t, planner) ==
    /\ tab[t].at = "settings" /\ planner # tab[t].form.planner /\ Click
    /\ tab' = [tab EXCEPT ![t].form.planner = planner]
    /\ UNCHANGED <<users, roles, companies, chosen>>

(* A click on the rail, on Back or on Continue.                            *)
GoToStep(t, s) ==
    /\ tab[t].at = "onboarding" /\ s # tab[t].step /\ Click
    /\ tab' = [tab EXCEPT ![t].step = s]
    /\ UNCHANGED <<users, roles, companies, chosen>>

Store(t, company) ==
    /\ Click
    /\ companies' = [companies EXCEPT ![Mine(t)] = company]
    /\ UNCHANGED <<users, roles, chosen>>

(* The name and the settings are two writes, and either may fail alone.    *)
Writes == {"name", "style"}

SaveOnboardingSettings(t) ==
    /\ tab[t].at = "onboarding" /\ tab[t].step = "company"
    /\ \E landed \in SUBSET Writes \ {{}} :
          /\ Store(t, [companies[Mine(t)] EXCEPT
                         !.name  = IF "name" \in landed THEN tab[t].form.name ELSE @,
                         !.style = IF "style" \in landed THEN tab[t].form.style ELSE @])
          /\ tab' = IF landed = Writes
                    THEN [tab EXCEPT ![t].step = "provider"] ELSE tab

(* The wizard does not speak of the planner and leaves it.                 *)
FinishWizard(t) ==
    /\ tab[t].at = "setup"
    /\ Store(t, [companies[Mine(t)] EXCEPT !.style = tab[t].form.style])
    /\ tab' = [tab EXCEPT ![t] = Idle]

SaveSettings(t) ==
    /\ tab[t].at = "settings"
    /\ Store(t, [companies[Mine(t)] EXCEPT !.style = tab[t].form.style,
                                           !.planner = tab[t].form.planner])
    /\ UNCHANGED tab

(* The other steps: a provider is connected, a repository added, an        *)
(* outcome submitted; each leaves the page and comes back to it.           *)
CompleteStep(t) ==
    /\ tab[t].at = "onboarding" /\ tab[t].step # "company"
    /\ tab[t].step \notin companies[Mine(t)].done /\ Click
    /\ companies' = [companies EXCEPT ![Mine(t)].done = @ \cup {tab[t].step}]
    /\ tab' = [tab EXCEPT ![t].at = "here"]
    /\ UNCHANGED <<users, roles, chosen>>

(* The page is closed; the wizard's own link to the repositories closes    *)
(* it, and drops what was chosen.                                          *)
Leave(t) ==
    /\ tab[t].at \in {"here", "onboarding", "setup", "settings"}
    /\ tab' = [tab EXCEPT ![t] = Idle]
    /\ UNCHANGED <<users, roles, companies, chosen, clicks>>

Next ==
    \E t \in FoundingTabs :
        \/ GetCurrentUser(t) \/ LookForCompany(t) \/ InsertCompany(t)
        \/ SeedRoles(t) \/ SeedEmployees(t) \/ Commit(t) \/ Abort(t)
        \/ OpenPage(t) \/ SaveOnboardingSettings(t) \/ FinishWizard(t)
        \/ SaveSettings(t) \/ CompleteStep(t) \/ Leave(t)
        \/ \E style \in Styles : ChooseStyle(t, style)
        \/ \E name \in Named : EnterName(t, name)
        \/ \E planner \in Planners : ChoosePlanner(t, planner)
        \/ \E s \in StepIds : GoToStep(t, s)

Spec == Init /\ [][Next]_vars

---------------------------------------------------------------------------
Companies ==
    [owner : Founders, name : Named, style : Styles, planner : Planners,
     departments : {Departments}, ownRoles : BOOLEAN,
     staff : {{}, Employees}, roleRows : SUBSET FoundingTabs,
     memories : {{}, Memories}, done : SUBSET StepIds]

TypeOK ==
    /\ users \subseteq Founders /\ roles \subseteq FoundingTabs
    /\ \A t \in FoundingTabs :
          /\ companies[t] # NoCompany => companies[t] \in Companies
          /\ tab[t].tx # NoCompany => tab[t].tx \in Companies
          /\ tab[t].at \in {"away", "known", "founding", "inserted", "roles", "staffed",
                            "here", "onboarding", "setup", "settings"}
          /\ tab[t].form \in [name : Named, style : Styles, planner : Planners]
          /\ tab[t].step \in StepIds
    /\ chosen \subseteq Founders /\ clicks \in 0 .. MaxClicks

Boss(e) == IF ReportsTo(e) = "nobody" THEN e ELSE ReportsTo(e)

(* Everybody is hired, with a role that exists, into a department of the   *)
(* company, and answers to the CTO.                                        *)
Whole(company) ==
    /\ company.staff = Employees
    /\ company.roleRows # {} /\ company.roleRows \subseteq roles
    /\ \A e \in company.staff :
          /\ RoleOf(e) \in Roles /\ DepartmentOf(e) \in company.departments
          /\ Boss(Boss(Boss(e))) = "CTO"
    /\ company.memories = Memories

(* However many tabs open the onboarding page at once, and wherever one of *)
(* them fails, a founder has at most one company, a company is there with  *)
(* its whole staff or not at all, and it never acts by itself, at the      *)
(* level "autonomous", before its founder has picked that level            *)
(* (onboarding/page.tsx, seedCompanyStructure).                            *)
FoundedOnce ==
    /\ \A f \in Founders : Cardinality(Committed(f)) <= 1
    /\ \A t \in FoundingTabs :
          companies[t] # NoCompany =>
              /\ Whole(companies[t])
              /\ companies[t].style = "autonomous" => companies[t].owner \in chosen
=============================================================================
