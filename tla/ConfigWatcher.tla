--------------------------- MODULE ConfigWatcher ---------------------------
(***************************************************************************)
(* The thread that watches the configuration files (src/utils/watcher.rs), *)
(* the loading of the configuration it does (niri-config) and the channel  *)
(* through which the event loop gets the result.                           *)
(*                                                                         *)
(* A version stands for the contents of a file and, at once, for its       *)
(* properties: the modification time and the canonical path, one of which  *)
(* changes whenever the contents do.  A file may get an earlier version    *)
(* back, as symbolic links to generations do.  Files change at any time,   *)
(* also between the choice of the main file and its reading; only the      *)
(* properties of a file, and its place among the main ones, are had at     *)
(* once.                                                                   *)
(***************************************************************************)
EXTENDS Integers, SequencesExt

CONSTANTS
  User, System, Alternative,  \* main files: ConfigPath::Regular has two, Explicit has one
  Include,                    \* the file that main files include
  Missing, NoPath,
  Versions(_),                \* bound: the contents a file can have, Missing among them
  Includers,                  \* the contents that include Include
  Optional,                   \* .. those of them that do so with optional=true
  Broken,                     \* the contents that do not parse
  MaxChanges, MaxRequests     \* bounds

Files == {User, System, Alternative, Include}

ASSUME BoundsAssumption == MaxChanges \in Nat /\ MaxRequests \in Nat
ASSUME VersionsAssumption == Missing \notin Includers \cup Broken /\ Optional \subseteq Includers

VARIABLES
  file,        \* file[f]: its version, or Missing
  path,        \* WatcherInner: path, a sequence of files to try in turn
  last_props,  \*               of the file that is there
  includes,    \*               for each included file, its properties
  pc,          \* where the thread is
  should_load,
  picked,      \* the main file that is about to be read, or NoPath
  result,      \* what the last load has read: `main`, and `includes` by file
  requests,    \* the channel of load_config
  changed,     \* the channel of results
  config,      \* the configuration in use, as the versions it was made of
  failed,      \* the error notification is shown
  wanted,      \* the path the user asked for last
  gap,         \* the files whose remembered properties are not those of what was loaded
  changes, asked

vars == <<file, path, last_props, includes, pc, should_load, picked, result, requests, changed,
          config, failed, wanted, gap, changes, asked>>

Regular == <<User, System>>
Explicit == <<Alternative>>

\* The file that load_inner picks, if any is there.
Pick(p) ==
  LET there == SelectSeq(p, LAMBDA f : file[f] # Missing)
  IN IF there = <<>> THEN NoPath ELSE Head(there)

Version(f) == IF f = NoPath THEN Missing ELSE file[f]

\* Props::from_config_path
Resolve(p) == Version(Pick(p))

IncludesOf(version) == IF version \in Includers THEN {Include} ELSE {}

\* The properties of some files, or their contents.
Look(S) == [f \in S |-> file[f]]

\* Does this make a configuration?  An included file that is not there is an error, unless
\* it is optional.
Parses(r) ==
  /\ r.main \notin Broken \cup {Missing}
  /\ \A f \in DOMAIN r.includes :
       r.includes[f] \notin Broken \cup (IF r.main \in Optional THEN {} ELSE {Missing})

\* The files whose properties, as remembered from now on, are not those of what was read.
Unlike(main, inner) ==
  {f \in {Head(path)} : main # result.main} \cup {f \in DOMAIN inner : inner[f] # result.includes[f]}

Nothing == [f \in {} |-> Missing]

---------------------------------------------------------------------------
(* The thread. *)

\* main(): load_or_create has created a file if there was none, and loaded one
Init ==
  /\ file \in [Files -> UNION {Versions(f) : f \in Files}]
  /\ \A f \in Files : file[f] \in Versions(f)
  /\ path = Regular /\ wanted = Regular
  /\ Resolve(Regular) # Missing
  /\ result = [main |-> Resolve(Regular), includes |-> Look(IncludesOf(Resolve(Regular)))]
  /\ config = IF Parses(result) THEN result ELSE [main |-> Missing, includes |-> Nothing]
  /\ failed = ~Parses(result)
  /\ last_props = Missing /\ includes = Nothing
  /\ pc = "starting" /\ should_load = FALSE /\ picked = NoPath
  /\ requests = <<>> /\ changed = <<>>
  /\ gap = {} /\ changes = 0 /\ asked = 0

\* The thread starts: WatcherInner::new, with what main() has found to be included
Start ==
  /\ pc = "starting"
  /\ last_props' = Resolve(path)
  /\ includes' = Look(DOMAIN result.includes)
  /\ gap' = Unlike(last_props', includes')
  /\ pc' = "idle"
  /\ UNCHANGED <<file, path, should_load, picked, result, requests, changed, config, failed,
                 wanted, changes, asked>>

\* recv_timeout(): a request, perhaps for another path ..
Take ==
  /\ pc = "idle" /\ requests # <<>>
  /\ should_load' = TRUE
  /\ IF Head(requests) = NoPath
       THEN UNCHANGED <<path, last_props, includes, gap>>
       ELSE /\ path' = Head(requests)
            /\ last_props' = Resolve(Head(requests))
            /\ includes' = Nothing
            /\ gap' = {f \in ToSet(Head(requests)) : last_props' # Missing}
  /\ requests' = Tail(requests)
  /\ pc' = "checking"
  /\ UNCHANGED <<file, picked, result, changed, config, failed, wanted, changes, asked>>

\* .. or the time has run out
Timeout ==
  /\ pc = "idle" /\ requests = <<>>
  /\ should_load' = FALSE
  /\ pc' = "checking"
  /\ UNCHANGED <<file, path, last_props, includes, picked, result, requests, changed, config,
                 failed, wanted, gap, changes, asked>>

\* check(): the main file ..
Check ==
  /\ pc = "checking"
  /\ pc' = CASE Resolve(path) = Missing -> "idle"
             [] Resolve(path) = last_props -> "checking_includes"
             [] OTHER -> "picking"
  /\ last_props' = IF Resolve(path) = Missing THEN last_props ELSE Resolve(path)
  /\ UNCHANGED <<file, path, includes, should_load, picked, result, requests, changed, config,
                 failed, wanted, gap, changes, asked>>

\* Mutant: an included file that is gone does not count.
CheckIncludesPresent ==
  /\ pc = "checking_includes"
  /\ pc' = IF \/ should_load
              \/ \E f \in DOMAIN includes : file[f] \notin {includes[f], Missing}
             THEN "picking" ELSE "idle"
  /\ UNCHANGED <<file, path, last_props, includes, should_load, picked, result, requests, changed,
                 config, failed, wanted, gap, changes, asked>>

\* .. and the included ones, if the main file has not changed
CheckIncludes ==
  /\ pc = "checking_includes"
  /\ pc' = IF should_load \/ Look(DOMAIN includes) # includes THEN "picking" ELSE "idle"
  /\ UNCHANGED <<file, path, last_props, includes, should_load, picked, result, requests, changed,
                 config, failed, wanted, gap, changes, asked>>

\* process(): one of the main files is picked ..
PickFile ==
  /\ pc = "picking"
  /\ picked' = Pick(path)
  /\ pc' = "reading"
  /\ UNCHANGED <<file, path, last_props, includes, should_load, result, requests, changed, config,
                 failed, wanted, gap, changes, asked>>

\* .. and read, if it is still there ..
Read ==
  /\ pc = "reading"
  /\ result' = [main |-> Version(picked), includes |-> Nothing]
  /\ picked' = NoPath
  /\ pc' = "reading_includes"
  /\ UNCHANGED <<file, path, last_props, includes, should_load, requests, changed, config, failed,
                 wanted, gap, changes, asked>>

\* .. and parsed, which reads the included ones
ReadIncludes ==
  /\ pc = "reading_includes"
  /\ result' = [result EXCEPT !.includes = Look(IncludesOf(result.main))]
  /\ pc' = "sending"
  /\ UNCHANGED <<file, path, last_props, includes, should_load, picked, requests, changed, config,
                 failed, wanted, gap, changes, asked>>

\* changed.send(), which waits while there is a result in the channel
Send ==
  /\ pc = "sending" /\ changed = <<>>
  /\ changed' = <<result>>
  /\ pc' = "setting_includes"
  /\ UNCHANGED <<file, path, last_props, includes, should_load, picked, result, requests, config,
                 failed, wanted, gap, changes, asked>>

\* Mutant: what was watched is watched on.
SetSameIncludes ==
  /\ pc = "setting_includes"
  /\ includes' = Look(DOMAIN includes)
  /\ gap' = Unlike(last_props, [f \in DOMAIN includes' \cap DOMAIN result.includes |-> includes'[f]])
  /\ pc' = "idle"
  /\ UNCHANGED <<file, path, last_props, should_load, picked, result, requests, changed, config,
                 failed, wanted, changes, asked>>

\* set_includes()
SetIncludes ==
  /\ pc = "setting_includes"
  /\ includes' = Look(DOMAIN result.includes)
  /\ gap' = Unlike(last_props, includes')
  /\ pc' = "idle"
  /\ UNCHANGED <<file, path, last_props, should_load, picked, result, requests, changed, config,
                 failed, wanted, changes, asked>>

Thread ==
  \/ Start \/ Take \/ Timeout \/ Check \/ CheckIncludes
  \/ PickFile \/ Read \/ ReadIncludes \/ Send \/ SetIncludes

---------------------------------------------------------------------------
(* The event loop, and the world. *)

\* Action::LoadConfigFile
LoadConfig ==
  /\ asked < MaxRequests
  /\ \E p \in {NoPath, Explicit} :
       /\ requests' = Append(requests, p)
       /\ wanted' = IF p = NoPath THEN wanted ELSE p
  /\ asked' = asked + 1
  /\ UNCHANGED <<file, path, last_props, includes, pc, should_load, picked, result, changed,
                 config, failed, gap, changes>>

\* reload_config: what does not parse is reported, and the old configuration stays
ReloadConfig ==
  /\ changed # <<>>
  /\ failed' = ~Parses(Head(changed))
  /\ config' = IF Parses(Head(changed)) THEN Head(changed) ELSE config
  /\ changed' = <<>>
  /\ UNCHANGED <<file, path, last_props, includes, pc, should_load, picked, result, requests,
                 wanted, gap, changes, asked>>

\* Somebody writes, removes or replaces a file.
Change ==
  /\ changes < MaxChanges
  /\ \E f \in Files : \E v \in Versions(f) \ {file[f]} : file' = [file EXCEPT ![f] = v]
  /\ changes' = changes + 1
  /\ UNCHANGED <<path, last_props, includes, pc, should_load, picked, result, requests, changed,
                 config, failed, wanted, gap, asked>>

Next == Thread \/ LoadConfig \/ ReloadConfig \/ Change

\* The thread goes on, and the event loop handles its sources; users need do nothing.
Spec == Init /\ [][Next]_vars /\ WF_vars(Thread) /\ WF_vars(ReloadConfig)

---------------------------------------------------------------------------
(* Properties. *)

\* The configuration in use is what the files the user wants now say, or the error is shown.
UpToDate ==
  LET now == [main |-> Resolve(wanted), includes |-> Look(IncludesOf(Resolve(wanted)))]
  IN now.main # Missing =>
       IF Parses(now) THEN config = now /\ ~failed ELSE failed

\* When nobody changes the files any more, the configuration becomes what they say,
\* whatever has been changed while the thread was checking, reading or waiting to send, and
\* also if another path was asked for while its file was not there (Watcher::new, check).
\* There is no exception but the gap: a file that changes between being read and having its
\* properties read, which the code names, or between having them read and being loaded, if
\* it is later as it was.
Settles == <>[](gap = {} => UpToDate)

\* Between two rounds of the thread, with nothing on its way through either channel, the
\* configuration in use is what the files say or the next check sees that it is not, unless
\* there is a gap: what check and set_includes remember are the properties of all the files
\* the last load has read, and of no others, and what was loaded last is what is in use.
DifferenceIsVisible ==
  pc = "idle" /\ requests = <<>> /\ changed = <<>> /\ gap = {} =>
    UpToDate \/ Resolve(path) # last_props \/ Look(DOMAIN includes) # includes

=============================================================================
