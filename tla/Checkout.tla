------------------------------ MODULE Checkout ------------------------------
(***************************************************************************)
(* What a checkout and the machine have to have before Buck can run there  *)
(* (bin/tine.py): the files `tine init` writes, and the pinned Buck2 in    *)
(* the user's cache, which commands of several checkouts share.  Commands  *)
(* run at the same time, `tine init` too, which takes no lock; they are    *)
(* killed at any point, the network answers with anything, and the user    *)
(* clears the cache.                                                       *)
(***************************************************************************)
EXTENDS Naturals

CONSTANTS
  Command,   \* processes, each of any command
  Pin,       \* hashes of pinned archives
  Cell       \* paths at which the tine cell can lie

CheckoutAssumption ==
  /\ Cell # {} /\ Pin # {}
  /\ "absent" \notin Cell /\ "own" \notin Cell

VARIABLES
  settings,   \* tine.toml: "absent", "own" (no cells), or the cell it names
  ignored,    \* who keeps what builds leave out of git: "nobody", "ours", "own", "excludes"
  config,     \* .buckconfig: "absent" or the cell it was rendered for
  cached,     \* per pin: what is at the binary's place
  entry,      \* per pin: whether its directory in the cache is there
  command,    \* per process: its step, its cell or pin, what it has in hand
  ran,        \* history: what has been executed as the pinned Buck2
  contended   \* history: whether two inits ran at a time that were told different cells

checkoutVars == <<settings, ignored, config, cached, entry, command, ran, contended>>
project == <<settings, ignored, config, contended>>
cache == <<cached, entry, ran>>

Contents == {"nothing", "part", "whole", "other"}
Idle == [step |-> "idle", cell |-> CHOOSE c \in Cell : TRUE,
         pin |-> CHOOSE h \in Pin : TRUE, holds |-> "nothing"]

CheckoutTypeOK ==
  /\ settings \in {"absent", "own"} \cup Cell
  /\ ignored \in {"nobody", "ours", "own", "excludes"}
  /\ config \in {"absent"} \cup Cell
  /\ cached \in [Pin -> Contents]
  /\ entry \in [Pin -> BOOLEAN]
  /\ ran \subseteq Contents
  /\ contended \in BOOLEAN
  /\ command \in [Command -> [step : {"idle", "settings", "ignore", "config", "look", "fetch",
                                      "check", "unpack", "install", "run"},
                              cell : Cell, pin : Pin, holds : Contents]]

CheckoutInit ==
  /\ settings \in {"absent", "own"} \cup Cell
  /\ ignored \in {"nobody", "own"}
  /\ config = "absent"
  /\ cached = [h \in Pin |-> "nothing"] /\ entry = [h \in Pin |-> FALSE]
  /\ command = [p \in Command |-> Idle]
  /\ ran = {} /\ contended = FALSE

At(p, step) == command[p].step = step
To(p, step) == command' = [command EXCEPT ![p].step = step]
Has(p, step, what) == command' = [command EXCEPT ![p].step = step, ![p].holds = what]

(***************************************************************************)
(* tine init                                                               *)
(***************************************************************************)
Initializing == {"settings", "ignore", "config"}

AfterSettings == "ignore"

\* init_command up to its first write, which it leaves out where the settings name the cell.
BeginInit(p) ==
  /\ At(p, "idle") /\ config = "absent"
  /\ \E c \in Cell :
       /\ settings \in {"absent", "own", c}
       /\ command' = [command EXCEPT ![p] =
            [Idle EXCEPT !.step = IF settings = c THEN AfterSettings ELSE "settings", !.cell = c]]
       /\ contended' = (contended \/ \E q \in Command : command[q].step \in Initializing /\ command[q].cell # c)
  /\ UNCHANGED <<settings, ignored, config, cache>>

WriteSettings(p) ==
  /\ At(p, "settings")
  /\ settings' = command[p].cell
  /\ To(p, AfterSettings)
  /\ UNCHANGED <<ignored, config, contended, cache>>

\* A .gitignore that is there is the project's; update_git_excludes then.
KeepIgnored(p) ==
  /\ At(p, "ignore")
  /\ ignored' = IF ignored = "nobody" THEN "ours" ELSE "excludes"
  /\ To(p, "config")
  /\ UNCHANGED <<settings, config, contended, cache>>

WriteConfig(p) ==
  /\ At(p, "config")
  /\ config' = command[p].cell
  /\ To(p, "idle")
  /\ UNCHANGED <<settings, ignored, contended, cache>>

(***************************************************************************)
(* The pinned Buck2                                                        *)
(***************************************************************************)
\* ensure_buck2_binary, in a project that is initialized.
BeginBuck(p) ==
  /\ At(p, "idle") /\ config # "absent"
  /\ \E h \in Pin : command' = [command EXCEPT ![p] = [Idle EXCEPT !.step = "look", !.pin = h]]
  /\ UNCHANGED <<project, cache>>

(* _pinned_binary: the cache entry is named by the hash of the archive.    *)
(* A completing shell does not fetch, and does without.                    *)
Look(p) ==
  /\ At(p, "look")
  /\ \/ cached[command[p].pin] # "nothing" /\ To(p, "run")
     \/ cached[command[p].pin] = "nothing" /\ To(p, "fetch")
     \/ cached[command[p].pin] = "nothing" /\ To(p, "idle")
  /\ UNCHANGED <<project, cache>>

\* _download_binary, into a directory of its own beside the cache entry.
Fetch(p) ==
  /\ At(p, "fetch")
  /\ \E what \in {"whole", "part", "other"} : Has(p, "check", what)
  /\ UNCHANGED <<project, cache>>

\* The digest of what was written is that of the pin, or nothing is kept.
Check(p) ==
  /\ At(p, "check")
  /\ IF command[p].holds = "whole" THEN Has(p, "unpack", "nothing") ELSE Has(p, "idle", "nothing")
  /\ UNCHANGED <<project, cache>>

\* Unpacked straight to where the next command looks for it.
UnpackMutant(p) ==
  /\ At(p, "unpack")
  /\ entry' = [entry EXCEPT ![command[p].pin] = TRUE]
  /\ \/ command[p].holds = "nothing" /\ Has(p, "unpack", "part")
        /\ cached' = [cached EXCEPT ![command[p].pin] = "part"]
     \/ command[p].holds = "part" /\ Has(p, "install", "whole")
        /\ cached' = [cached EXCEPT ![command[p].pin] = "whole"]
  /\ UNCHANGED <<project, ran>>

\* Chunk by chunk, still in the directory of its own.
Unpack(p) ==
  /\ At(p, "unpack")
  /\ \/ command[p].holds = "nothing" /\ Has(p, "unpack", "part")
     \/ command[p].holds = "part" /\ Has(p, "install", "whole")
  /\ UNCHANGED <<project, cache>>

\* The entry's directory, and then the binary renamed into it.
Install(p) ==
  LET h == command[p].pin IN
  /\ At(p, "install")
  /\ \/ ~entry[h] /\ entry' = [entry EXCEPT ![h] = TRUE]
        /\ UNCHANGED <<cached, command, ran, project>>
     \/ entry[h] /\ cached' = [cached EXCEPT ![h] = command[p].holds]
        /\ Has(p, "run", "nothing")
        /\ UNCHANGED <<entry, ran, project>>

\* execv, or a nested call, of whatever is there by now.
Run(p) ==
  /\ At(p, "run")
  /\ ran' = ran \cup ({cached[command[p].pin]} \ {"nothing"})
  /\ To(p, "idle")
  /\ UNCHANGED <<project, cached, entry>>

(***************************************************************************)
(* Kills, errors, and the user                                             *)
(***************************************************************************)
KillCommand(p) == ~At(p, "idle") /\ Has(p, "idle", "nothing") /\ UNCHANGED <<project, cache>>

ClearCache(h) ==
  /\ entry[h]
  /\ entry' = [entry EXCEPT ![h] = FALSE]
  /\ cached' = [cached EXCEPT ![h] = "nothing"]
  /\ UNCHANGED <<project, command, ran>>

CheckoutNext ==
  \/ \E p \in Command : BeginInit(p)
  \/ \E p \in Command : WriteSettings(p)
  \/ \E p \in Command : KeepIgnored(p)
  \/ \E p \in Command : WriteConfig(p)
  \/ \E p \in Command : BeginBuck(p)
  \/ \E p \in Command : Look(p)
  \/ \E p \in Command : Fetch(p)
  \/ \E p \in Command : Check(p)
  \/ \E p \in Command : Unpack(p)
  \/ \E p \in Command : Install(p)
  \/ \E p \in Command : Run(p)
  \/ \E p \in Command : KillCommand(p)
  \/ \E h \in Pin : ClearCache(h)

CheckoutSpec == CheckoutInit /\ [][CheckoutNext]_checkoutVars

(* A second run refuses a project that has a `.buckconfig`, so wherever an *)
(* init was killed nothing is missing once that is there: what builds      *)
(* leave is ignored, and the settings name the cell it was rendered for    *)
(* (init_command: ".buckconfig last").  Inits of one cell may run at the   *)
(* same time; of inits told different cells the last to write each file    *)
(* decides, and the settings and the configuration may name two.           *)
ConfigLast ==
  config # "absent" =>
    /\ ignored \in {"ours", "excludes"} /\ settings \in Cell
    /\ contended \/ settings = config

(* Whoever fetched it, was killed over it or raced for it: what is in the  *)
(* cache under a pin, and so what is ever executed as Buck2, is the whole  *)
(* of what was verified (_download_binary).                                *)
OnlyVerified == ran \subseteq {"whole"} /\ \A h \in Pin : cached[h] \in {"nothing", "whole"}

(* Both: what a checkout starts from is whole.                             *)
CheckoutSound == ConfigLast /\ OnlyVerified
=============================================================================
