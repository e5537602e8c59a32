----------------------------- MODULE ConfigStore -----------------------------
(***************************************************************************)
(* The configuration in memory and in config.yaml (src/utils/config.py)    *)
(* under the requests that change it (src/api/ws_handler.py), a full disk  *)
(* and crashes at any point.  save() writes config.yaml.tmp and renames    *)
(* it; nearly every request saves on the event loop, the audio gain is set *)
(* and saved on a thread of its own.  A file is an inode: a descriptor     *)
(* goes on writing to it under whatever name it has by then.               *)
(***************************************************************************)
EXTENDS Naturals, FiniteSets

CONSTANTS Version,     \* what a configuration may say
          Default,     \* what default_config.yaml says
          Overlapping  \* whether a save may start while the other one runs

ASSUME DefaultAssumption == Default \in Version
ASSUME VersionAssumption == {"empty", "torn"} \cap Version = {}
ASSUME OverlappingAssumption == Overlapping \in BOOLEAN

(***************************************************************************)
(* A whole configuration.  Not every one is in the form that parsing gives *)
(* it: the camera_id of a zone may be left to its camera_ids.              *)
(***************************************************************************)
Setting == [version : Version, filled : BOOLEAN]
Template == [version |-> Default, filled |-> TRUE]

\* _parse_config(): what is left out is filled in.
Parsed(raw) == [raw EXCEPT !.filled = TRUE]

Inode == 1..3    \* bound: config.yaml, its .tmp and one that has lost its name
NoFile == 0
Saver == {"loop", "gain"}

\* What a file may hold instead.
Empty == [version |-> "empty", filled |-> FALSE]
Torn == [version |-> "torn", filled |-> FALSE]

VARIABLES
  memory,       \* _config
  content,      \* of the inodes
  config_yaml,  \* the inodes the two names stand for
  tmp_path,
  saver,        \* where the event loop and the gain thread are in save()
  running,      \* the process is up
  promised      \* the configuration of the last request that was answered well

configVars == <<memory, content, config_yaml, tmp_path, saver, running, promised>>

NotSaving == [pc |-> "none", raw |-> Template, fd |-> NoFile, ok |-> TRUE]

ConfigInit ==
  /\ memory = Template /\ promised = Template
  /\ content = [i \in Inode |-> IF i = 1 THEN Template ELSE Empty]
  /\ config_yaml = 1 /\ tmp_path = NoFile
  /\ saver = [w \in Saver |-> NotSaving]
  /\ running = TRUE

Quiet == \A w \in Saver : saver[w] = NotSaving
Step(w, x) == saver' = [saver EXCEPT ![w] = x]

\* save() begins with a copy of the whole configuration (_to_dict()).
Saving(v) == [pc |-> "open", raw |-> v, fd |-> NoFile, ok |-> TRUE]

\* A request changes the configuration and calls save().
Request(w, v) ==
  /\ running /\ saver[w] = NotSaving /\ (Overlapping \/ Quiet)
  /\ memory' = v
  /\ Step(w, Saving(v))
  /\ UNCHANGED <<content, config_yaml, tmp_path, running, promised>>

\* A request is refused halfway, with a part of it in force.
RaiseHalfway(v) ==
  /\ running /\ saver["loop"] = NotSaving /\ (Overlapping \/ Quiet)
  /\ memory' = v
  /\ UNCHANGED <<content, config_yaml, tmp_path, saver, running, promised>>

\* Faulty variant (mutation runs): config.yaml itself is opened for writing.
OpensConfig(i) == i = config_yaml
\* The file under the temporary name, a new one where there is none.
OpensTmp(i) ==
  IF tmp_path # NoFile THEN i = tmp_path
  ELSE i # config_yaml /\ \A w \in Saver : i # saver[w].fd

\* open(tmp_path, 'w') truncates what it opens.
Open(w) ==
  /\ saver[w].pc = "open"
  /\ \E i \in Inode :
       /\ OpensTmp(i)
       /\ tmp_path' = i
       /\ content' = [content EXCEPT ![i] = Empty]
       /\ Step(w, [saver[w] EXCEPT !.pc = "write", !.fd = i])
  /\ UNCHANGED <<memory, config_yaml, running, promised>>

\* The dump is written and synced; over what another one wrote it is no more either.
Write(w) ==
  /\ saver[w].pc = "write"
  /\ content' = [content EXCEPT ![saver[w].fd] = IF @ \in {Empty, saver[w].raw} THEN saver[w].raw
                                                 ELSE Torn]
  /\ Step(w, [saver[w] EXCEPT !.pc = "replace", !.fd = NoFile])
  /\ UNCHANGED <<memory, config_yaml, tmp_path, running, promised>>

DiskFull(w) ==
  /\ saver[w].pc = "write"
  /\ content' = [content EXCEPT ![saver[w].fd] = Torn]
  /\ Step(w, [saver[w] EXCEPT !.pc = "unlink", !.fd = NoFile, !.ok = FALSE])
  /\ UNCHANGED <<memory, config_yaml, tmp_path, running, promised>>

Replace(w) ==
  /\ saver[w].pc = "replace"
  /\ IF tmp_path = NoFile THEN UNCHANGED <<config_yaml, tmp_path>>
     ELSE config_yaml' = tmp_path /\ tmp_path' = NoFile
  /\ Step(w, [saver[w] EXCEPT !.pc = "unlink", !.ok = tmp_path # NoFile])
  /\ UNCHANGED <<memory, content, running, promised>>

\* What still has the temporary name is removed; then the request is answered.
Unlink(w) ==
  /\ saver[w].pc = "unlink"
  /\ tmp_path' = NoFile
  /\ promised' = IF saver[w].ok THEN saver[w].raw ELSE promised
  /\ Step(w, NotSaving)
  /\ UNCHANGED <<memory, content, config_yaml, running>>

\* The process dies, with a copy half written as it may be.
Crash ==
  /\ running
  /\ running' = FALSE
  /\ saver' = [w \in Saver |-> NotSaving]
  /\ UNCHANGED <<memory, content, config_yaml, tmp_path, promised>>

\* load(): an empty file is put aside for the default configuration; what does not
\* parse ends the start, the next one and so on.
Load ==
  /\ ~running /\ content[config_yaml] # Torn
  /\ running' = TRUE
  /\ content' = [content EXCEPT ![config_yaml] = IF @ = Empty THEN Template ELSE @]
  /\ memory' = Parsed(content'[config_yaml])
  /\ UNCHANGED <<config_yaml, tmp_path, saver, promised>>

ConfigNext ==
  \/ \E w \in Saver : \/ Open(w) \/ Write(w) \/ DiskFull(w) \/ Replace(w) \/ Unlink(w)
                      \/ \E v \in Setting : Request(w, v)
  \/ \E v \in Setting : RaiseHalfway(v)
  \/ Crash \/ Load

ConfigSpec == ConfigInit /\ [][ConfigNext]_configVars

-----------------------------------------------------------------------------
ConfigTypeOK ==
  /\ memory \in Setting /\ promised \in Setting
  /\ content \in [Inode -> Setting \cup {Empty, Torn}]
  /\ config_yaml \in Inode /\ tmp_path \in Inode \cup {NoFile}
  /\ saver \in [Saver -> [pc : {"none", "open", "write", "replace", "unlink"}, raw : Setting,
                          fd : Inode \cup {NoFile}, ok : BOOLEAN]]
  /\ running \in BOOLEAN

Store == INSTANCE AtomicStore WITH saved <- content[config_yaml]

\* Through crashes, full disks and what earlier attempts left behind, config.yaml
\* goes from one whole configuration to the one in use, and a request is only
\* answered well when its change is in it (config.py:538): as long as no two
\* saves overlap.
ImplementsStore == Store!Spec

(***************************************************************************)
(* What does not hold (api_divergences.cfg)                                *)
(***************************************************************************)
\* config.yaml is whole at any time, whoever saves.
FileIsWhole == content[config_yaml] \in Setting

\* What the last request was told is in force is what the next start reads.
PromisedIsSaved == Quiet => content[config_yaml] = promised
=============================================================================
