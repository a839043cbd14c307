---------------------------- MODULE WorkerPolicy ----------------------------
(***************************************************************************)
(* What an autonomy level permits: the actions the company takes by itself *)
(* (autonomy-policy.ts), the commands a worker runs for a session          *)
(* (worker-permissions.ts, repository-guardrails.ts), the mode its agent   *)
(* runs in (worker-effective-permission.ts) and the checks a repository is *)
(* given (check-command-profile.ts).  A command is the sequence of its     *)
(* words; what a blocked fragment would match inside a word is left out.   *)
(***************************************************************************)
EXTENDS Naturals, Sequences

INSTANCE SequencesExt

Levels == <<"manual", "suggest", "assist", "delegate", "autonomous">>

(* normalizeAutonomyLevel: an unknown level is the safest one.             *)
Rank(level) ==
    IF \E i \in DOMAIN Levels : Levels[i] = level
    THEN CHOOSE i \in DOMAIN Levels : Levels[i] = level
    ELSE 1

(* AUTONOMY_POLICY_MATRIX: the rank from which an action needs no approval.*)
FreeFrom ==
    [create_session |-> 2, push |-> 3, open_pr |-> 3, run_agent |-> 4,
     auto_review |-> 4, auto_qa |-> 4, apply_plan |-> 4, auto_merge |-> 5]

Disposition(level, action) ==
    CASE Rank(level) >= FreeFrom[action]                -> "allow"
      [] action = "auto_merge" /\ Rank(level) <= 2      -> "deny"
      [] OTHER                                          -> "requires_approval"

(* evaluateAutonomyCheckpoint: with an approval in hand, or without.       *)
Checkpoint(level, action, approved) ==
    CASE Disposition(level, action) = "deny"              -> "blocked"
      [] Disposition(level, action) = "allow" \/ approved -> "proceed"
      [] OTHER                                            -> "awaiting_approval"

---------------------------------------------------------------------------
(* The worker's permission profiles.                                       *)

Permissions == <<"read_only", "suggest", "execute", "full", "full">>

PermissionOf(level) == Permissions[Rank(level)]

AllowedCommands(permission) ==
    LET git(words) == {<<"git", w>> : w \in words}
        basic      == {"add", "commit", "checkout", "pull", "push", "status", "diff",
                       "log", "branch", "stash"}
    IN  CASE permission = "read_only" -> {}
          [] permission = "suggest"   -> {<<"npx", "tsc", "--noEmit">>, <<"npm", "run", "lint">>,
                                          <<"npm", "run", "test">>}
          [] permission = "execute"   -> {<<"npm">>, <<"npx">>, <<"node">>} \cup git(basic)
          [] permission = "full"      ->
                 {<<tool>> : tool \in {"npm", "npx", "pnpm", "yarn", "gh", "node", "ts-node",
                                       "tsc", "eslint", "prettier", "vitest", "jest", "docker",
                                       "docker-compose"}}
                 \cup git(basic \cup {"merge", "rebase", "tag"})

BlockedWords ==
    {"curl", "wget", "ssh", "scp", "ftp", "nc", "netcat", "nmap", "sudo", "su",
     "eval", "exec"}

(* validateCommand: the blocked words win over the allowed prefixes.       *)
Permitted(command, permission) ==
    /\ Range(command) \cap BlockedWords = {}
    /\ \E allowed \in AllowedCommands(permission) : IsPrefix(allowed, command)

(* checkCommandGuardrail, whatever the profile.                            *)
Dangerous(command) ==
    \/ IsPrefix(<<"rm", "-rf">>, command)
    \/ IsPrefix(<<"git", "reset", "--hard">>, command)
    \/ /\ IsPrefix(<<"git", "push">>, command)
       /\ Range(command) \cap {"--force", "--force-with-lease"} # {}

(* checkBranchGuardrail: the branches no agent works on.                   *)
ProtectedBranch(branch) == branch \in {"main", "master", "release/*", "hotfix/*", "v1"}

(* resolveEffectivePermissionLevel: the level the agent itself runs at.    *)
Effective(permission, override, sandbox, allowUnsandboxedFull) ==
    CASE override # "none"                                -> override
      [] sandbox = "docker"                               -> permission
      [] permission = "full" /\ ~allowUnsandboxedFull     -> "execute"
      [] OTHER                                            -> permission

(* PERMISSION_MODE_MAP, SANDBOX_MODE_MAP: the levels that let it write.    *)
MayEdit(permission) == permission \in {"execute", "full"}

---------------------------------------------------------------------------
(* The checks of a repository.                                             *)

Npm(script) == <<"npm", "run", script>>

Profile(name) ==
    CASE name = "nextjs"  -> <<<<"npx", "prisma", "validate">>,
                               <<"npx", "prisma", "format", "--check">>,
                               <<"npx", "prisma", "generate">>,
                               <<"npx", "tsc", "--noEmit">>,
                               Npm("lint"), Npm("build"), Npm("test")>>
      [] name = "nodejs"  -> <<Npm("lint"), Npm("build"), Npm("test")>>
      [] name = "python"  -> <<<<"ruff", "check", ".">>, <<"ruff", "format", "--check", ".">>,
                               <<"mypy", ".">>, <<"pytest">>>>
      [] name = "generic" -> <<Npm("build"), Npm("test")>>

(* detectProfile: frameworks before the language, in the order of the list.*)
ProfileOf(stack, language) ==
    CASE stack \cap {"nextjs", "next.js", "next"} # {}                -> "nextjs"
      [] stack \cap {"django", "flask", "fastapi", "starlette", "tornado", "python"} # {}
                                                                       -> "python"
      [] stack \cap {"express", "fastify", "koa", "hapi", "nestjs", "node"} # {} -> "nodejs"
      [] language = "python"                                          -> "python"
      [] language = "javascript"                                      -> "nodejs"
      [] OTHER                                                        -> "generic"

(* packageScriptForCommand: it depends on what the manifest offers.        *)
RunsScript(command) ==
    \/ Len(command) >= 3 /\ command[1] \in {"npm", "pnpm", "yarn"} /\ command[2] = "run"
    \/ Len(command) >= 2 /\ command[1] = "npm" /\ command[2] \in {"test", "start"}

NeedsSchema(command) == "prisma" \in Range(command)

(* detectInstallCommand: by the lockfile, with a laxer second attempt.     *)
Install(lockfile) ==
    CASE lockfile = "pnpm" -> <<"pnpm", "install", "--frozen-lockfile">>
      [] lockfile = "yarn" -> <<"yarn", "install", "--frozen-lockfile">>
      [] lockfile = "npm"  -> <<"npm", "ci">>
      [] lockfile = "none" -> <<"npm", "install">>

Fallback(lockfile) ==
    CASE lockfile = "pnpm" -> <<"pnpm", "install">>
      [] lockfile = "yarn" -> <<"yarn", "install">>
      [] lockfile = "npm"  -> <<"npm", "install">>
      [] lockfile = "none" -> <<>>
============================================================================
