# Models and proofs of the X-Files player

This directory holds the TLA+ specifications of the programs in this
repository: the playable shell `xfiles_play`, the reference engine
`xfiles_engine`, the code they share, and the Python tool-chain `hdb-extract`
that produces what they load. The specifications are model-checked with TLC on
small instances; the theorems about them are checked with TLAPS for every value
of the constants.

## The system

The repository reconstructs a 1998 adventure game from its data files. Python
tools decode the NeoPersist database (`*.HDB`) into JSON; two C++ programs read
that JSON: `xfiles_engine` validates and prints the reconstructed game,
`xfiles_play` lets a player walk through it with the original films and hotspots.

| Part | State it keeps | Operations | Works with |
| --- | --- | --- | --- |
| Playable shell, `cpp/src/runtime/sdl2_main.cpp` | location, flow index, scene, hotspots, variables, film, counters of the exit summary | startup, SPACE, BACKSPACE, F1, F5, F9, ESC, click, render-loop turn | calls everything below; the save file survives it |
| Dispatcher, `cpp/include/runtime/dispatcher.h` | `VariableState`: a map and four counters | `apply_effect`, `dispatch_scene`, `save_state_json`, `load_state_json`, two loaders | called by the shell; re-implemented by the engine |
| Scene resolver, `scene_resolver.cpp` | location → scene table | `from_hints`, `scene_for` | rebuilt by the shell for every step |
| Hotspot loader, `hsp_loader.cpp` | none | `load_hot_file`, `hit_test` | the shell's `rects` |
| FMV player, `fmv_player.cpp` | film, texture, decoder, frame index, clock, `done_` | `open`, `attach`, `pump`, `render` | SDL audio queue, codecs |
| Codecs, `cpp/src/assets` | codebooks, predictor | one frame, one packet, one container | the FMV player |
| Reference engine, `cpp/src/engine/xfiles_engine.cpp` | phase machines, report, own `VariableState` | `validate_scripted_flow`, `simulate_step`, `dispatch_playthrough`, printers | the same JSON as the shell |
| HDB layer, `cpp/src/hdb` | page buffers, record index, cursors | load pages, seek tags, resolve ids, lazy resolver | read by the NL layer |
| NL layer, `cpp/src/nl` | stream position, sticky error, current record version, class registry, record index | read and write fields, make objects by class id, walk leaves | over the HDB layer |
| Persistent classes, `cpp/src/nl/classes` | the members of 51 classes | `Read`, `Write` per class | call the serializer and, for the objects they hold, the factory |
| VC structures, `cpp/src/vc` | plain fields | `read`, `write` per class | over the NL layer |
| Python serializer and classes, `serializer/`, `classes/`, `polymorphe/` | cursor, sticky error, version, usage map | `read_*`, `write_*`, `apply_read`, `apply_write`, `read_obj`, `read_obj_list` | called by the record decoders |
| Python container and indexes, `container/`, `btree/` | pages, record index, id index with two kinds of extension | parse, index, resolve, extend, classify, scan | called by most extractors |
| Python extractors, `extractors/`, `ext/` | the artifacts in memory | conversations, vocabulary, game definition, trace, dispatch, decision tree, scene files | read the indexes and each other's files |
| Python command line and database, `cli.py`, `output/` | the output directory, the SQLite file | `extract`, `game-def`, `trace`, `dispatch` | survives the process; its JSON is what the C++ programs load |

What makes it hard. The programs are single-threaded, so the difficulties are
those of long sequences of legal calls and of steps that fail half-way: an index
that moves although the step it names is refused; a film, a location and a
hotspot list that must change together; results that are computed and ignored;
decoder state that survives its film; a clock and an audio device that run on by
themselves; one save file that is truncated before it is written; two programs
that answer the same question with different code. The tool-chain adds its own:
five scanners that find the records of one file by different rules and must
agree; an index that is extended in any order and must not move what it has; a
join whose file reports counts about itself; a run over the output of earlier
runs, which an exception or a kill may leave half new. `PROJECT.json` lists each of
these hazards at its line, with the properties that would catch it.

What makes each part correct:

* shell — scene, hotspots and location belong together; the place shown is the
  enterable step nearest to the index; the variables are those of the walk or of
  a whole save; a crash never yields half a save;
* dispatcher — the last write of a list wins, nothing is counted twice, the list
  of mutations explains the change;
* resolver — first byte-direct hint, stable under extension of the map;
* FMV player — the picture is a clean decode of the current frame, never early,
  never backwards; playback ends;
* engine — the phase machines are a function of the passes; totals add up; its
  dispatcher agrees with the shell's;
* NL layer — what was written is read back, through any nesting of records; what
  is accepted is what was written; a cut file costs the fields behind the cut;
* Python serializer and classes — what is read is what was written, up to the byte
  where the file ends; the usage map names those bytes; two decoders agree;
* Python container and indexes — every known id leads to its record, whatever was
  indexed and extended and in whatever order; scans that see one record agree;
* Python extractors — every slot, record and edge is counted once; the counts a
  file reports are those found in it; the dispatcher agrees with the engine;
* extract command — the files of a scene belong together, the database is one
  run, nothing is older than what speaks of it.

## Modules

| Module | Models | Notes |
| --- | --- | --- |
| `Scenes` | scene ids | shared by resolver, player and shell |
| `Dispatcher` | `apply_effect`, `dispatch_scene`, save and load, the effects a location's triggers stand for, as operators | an effect text is an assignment or `Uninterpreted` |
| `DispatchLoop` | the loop of `dispatch_scene`, one iteration per step | shows `DispatchScene` is what the loop computes |
| `SceneAssets` | body of `from_hints`, `scene_for`, and the closed form | a scene is enterable when its `.HOT` exists |
| `ResolverLoop` | the loop of `from_hints` | shows `MatchFor` is what the loop computes |
| `FmvPlayer` | `open`, `attach`, `load_frame_`, `pump` as functions on the player | time counted in frame periods since `attach` |
| `FmvPlayback` | one player, the clock, the audio device | liveness of playback |
| `PlayShell` | `xfiles_play` | composes `Dispatcher`, `SceneAssets`, `FmvPlayer` |
| `Walkthrough` | what the shell promises | abstract: no keys, films, counters or crashes |
| `EngineDispatcher` | the engine's own dispatch of one step | over `Dispatcher` |
| `EngineWalk` | `simulate_step` on one location, `validate_scripted_flow` and `dispatch_playthrough` over one walk | |
| `NlLayouts` | the `Read` and the `Write` bodies of the 51 classes, as sequences of items | translated apart from each other, one definition per source file |
| `NlRecords` | `InMemoryHDBSerializer`, `VCObject`, `vc_factory.cpp` | writes a tree of objects and reads it back, one field per step |
| `PyData` | `None`, `dict.get`, dicts filled from lists, slices | shared by the Python modules |
| `Conversations` | `extractors/conversations.py`: a record to slots, slots to handles and edges, containers | pure operators |
| `ActionVocabulary` | `extractors/action_vocabulary.py`: the tally by opcode | pure operators |
| `GameDefBuilder` | `extractors/game_definition.py`: the joined model, its counts and its audit | the document is a tree of nodes with a certainty |
| `PyDispatcher` | `extractors/dispatcher.py`, `playthrough_trace.py` | one step of the flow |
| `GameExport` | the commands behind `conversations`, `game-def`, `trace`, `dispatch` | composes the four and, for comparison, `EngineDispatcher` |
| `HdbFile` | `container/`, `btree/record_index.py` | a file is a sequence of words |
| `HdbResolver` | `btree/master_resolver.py`: index, resolution, both extensions | a resolver is a record of its members |
| `HdbScans` | `btree/master_index.py`, `handle_resolver.py`, `leaf*.py`, `walker.py`, `follow_pointers.py`, and the extractors of pages, triggers, navigation and typed records | pure operators |
| `HdbIndex` | one resolver built page by page and extended, the scans beside it | composes the three |
| `SceneTree` | `ext/decomp_intel.py`, `ext/scene_assets.py`, `extractors/decision_tree.py`, `triggers_full.py` | the joins by normalised names |
| `SceneFiles` | the five writers of a scene: JSON, Markdown, storyboard, script, readable script | what each file tells |
| `ExtractRun` | `cli.py extract`, `output/sqlite_writer.py`, `xt_dump.py` | one write per step, exceptions and kills in between |
| `ClassSpecs` | `classes/spec.py`, `classes/generated/all_classes.py` | the 51 classes as data |
| `PyCursor` | `serializer/`: cursor, packed cursor, writer, usage map, record marker | the reader as a value |
| `PyRecords` | `classes/registry.py`, `polymorphe/dispatcher.py`, `decoded_records.py`, `typed_records.py` | composes the two: write, cut, read, decode |
| `ExtremaLemmas`, `ShellLemmas` | lemmas about minima and maxima, folds and sums; about the operators of the shell | cited by several proof modules |
| `Shell_proofs`, `EngineWalk_proofs`, `NlRecords_proofs`, `HdbIndex_proofs`, `ExtractRun_proofs`, `PyRecords_proofs` | theorems | one module per proved component; `Shell_proofs` is that of `PlayShell` and of its parts `DispatchLoop`, `ResolverLoop` and `FmvPlayback` |
| `MC…` | constants of the runs | |

How state and actions correspond to the code:

* An action of `PlayShell` is one event handler run to its end. `step_idx`,
  `scene_id`, `resolved_location`, `rects`, `vs`, `fmv`, `fmv_ok`, `clicks`,
  `last_action_id`, `debug` and `running` are the variables of `main`;
  `boot_scene` is the scene `xmv_path` was built from; `save_file` is the file
  on disk. `anchor`, `entries` and `fresh` are history variables: no guard but
  the bounds reads them.
* `SaveState` is F5 done; `SaveCut` is F5 after the truncation of the file, when
  the process dies or the writes fail. `Crash` may come at any time. Keys queued
  behind ESC are still handled, so no handler asks for `running`.
* A film is described by what the container parser makes of it (`absent`,
  `short`, `trackless`, `audioOnly`, `other`, `cvid`) and by its frames (`key`,
  `inter`, `bad`). A picture is named after the film and frame it is a clean
  decode of, or is `Mixed`. `created` is whether SDL gave a texture.
* In the loop modules the list is revealed as the loop consumes it, so that every
  list up to the bound is one behaviour.
* Definitions called `Mut…` are plausible mistakes in the code, kept next to the
  definition they would replace. They are used by no specification; each is
  known to break one property.

* In `NlRecords` the nested C++ calls are frames of the stacks `wstack` and
  `rstack`; a frame of `rstack` also holds the `saved_version` of its `read_obj`.
  The stream is a sequence of tokens, one per typed write: width, tag, value, and
  a value is named after the object and member it comes from, so that a value in
  the wrong member shows. `error` makes every body return at its next check; the
  model takes the whole unwinding as one step (`Fail`), with the versions put
  back on the way. The tree is chosen while it is written; where the file ends
  (`FileEnds`, `FileEndsInHeader`), and which class id the reader's factory does
  not know (`ReadNothing`), is chosen when the reader gets there.

* In `GameExport` a record is revealed when its extractor decodes it, the
  artifacts of the other extractors when `game-def` starts; a step of the walk is
  a step of `trace` and of `dispatch` at once, which share nothing they write. A
  u32 is a small number that may be a dialogue id, an index id and an offset at
  the same time: what it is taken for is the question.
* In `HdbIndex` the constructor of `MasterHDBResolver` takes a step per page; an
  extension by classes takes a step per class, in any order, since the code
  iterates over a Python set. `extended_offsets`, `id_index` and `btree_root` are
  the members of `resolver`.
* In `ExtractRun` every file write is a step. `Crash` may come before any of them,
  or leave `CutEntry` where the file was being written; an exception in the joined part
  jumps to the summary, as the `try` of `cli.py` does. The database has a
  committed state and an open transaction; `CREATE TABLE` commits by itself.
* In `PyRecords` the writer and the reader take a step per operation of the
  class; `Cut` chooses where the file ends; `Finish` decodes what stands there
  with both decoders. The wire forms are `tlv`, what `HDBWriter` writes, and
  `packed`, what the game's files hold.

Abstractions: printing, window drawing, pixels and samples are left out; JSON
texts are their rows; strings are members of small sets; the arithmetic of
`static_cast<int>(action_id_1)` is left out. Every `.HOT` and `.xmv` keeps its
content while the shell runs.

## Runs

| Run | Bounds | Shows |
| --- | --- | --- |
| `dispatch_loop` | 2 variables, 3 literals, 3 effects, 3 start states | three effects suffice for overwrite, overwrite back and a foreign text between |
| `resolver_loop` | 2 locations, 3 scenes (2 with hotspots), 4 hints | undetermined, upgraded, then challenged by another byte-direct hint |
| `fmv_playback` | 7 films of at most 4 frames, clock to 5, 3 opens, queue of 3 | the clock passes the longest film; a film can be replaced twice, including by each kind of unusable file; a film never pumped late is shown to its last frame (`TimelyFilmIsComplete`) |
| `play_walk` | 5 flow steps, 3 locations (one unresolvable, visited twice), 3 entries per session, any number of sessions | the walk, the variables, the save slot, and the refinement of `Walkthrough` |
| `play_film` | same flow, films (one damaged, one missing), clicks, 2 entries per session | types and pictures |
| `engine_walk` | 7 places (6 catalogued, every shape of phase machine), 5 triggers with a repeated id and a foreign effect, 2 variables, 6 steps | six visits take the longest machine (2 phases × 2 checkpoints) to its end and beyond; triggers overwrite within and across steps |
| `nl_records` | every class as root; under it a class with two gates, one with a gated field behind a pointer, and a vector; 3 objects, vectors of at most 2, a cap of 1, versions 0 and 5 | versions below and above every gate (2 to 5); three objects suffice for a record nested between two fields of another, two levels deep; a vector over the cap and one within it |
| `game_export` | 2 conversation records, 8 payloads and 2 containers for them, 2 action records, 1 dialogue line per entry, 1 sample and 1 run kept; artifacts with repeated locations, ids and scopes, and none at all; 57 311 states | every number is a dialogue id, an index id and an offset in some combination; a cap of 1 is passed; a step of the flow is in the catalog, outside it, or without a location |
| `hdb_index` | files of 3 pages of 16 words behind a header of 2 (also one that looks like a marker), one more with a trailer that makes up a page, one with labels made of text, tab and DEL; 7 kinds of page; any 2 extensions, 3 class sets; 11 604 states | a global extension before and after a class extension; an id with a record, with a pair, with both, with several pairs; a marker off the slots; a page number the container refuses |
| `extract_run` | 2 runs over 5 kinds of input, a kill at any write of either, caps of 1 and 2; 27 812 states | a second run over the whole, failed, cut and missing output of the first; two names with one slug, two spellings of one scene, more videos and sequences than are listed; a scene whose name is that of another and "Storyboard" |
| `py_records` | the 51 classes and one with the reads none of them makes, both wire forms, filled and blank, no version and versions 4 and 5, cut at every byte, a window of 40 bytes; 59 074 states | both sides of the gate after version 4; records longer and shorter than the window; numbers with and without their first bit |
| `typed_records` | as `hdb_index` | the sentence about typed records the code does not keep |

The walk and the films are separate runs because their states multiply without
interacting: `play_walk` has no films, `play_film` no effects. Bounds are guards:
`MaxEffects`, `MaxHints`, `MaxAge`, `MaxQueue`, `MaxOpens`, `MaxEntries` (per
session), `MaxClicks`, `MaxSteps`, `MaxObjects`, `MaxItems`, `MaxActions`,
`MaxCalls`, and `MaxRuns` of `ExtractRun`. `MaxSamples` and `MaxRuns` of
`ActionVocabulary`, `MaxRecords`, `MaxLines`, `MaxBytes`, `ENTRY_CAP`, `SEQ_CAP`,
`VIEW_CAP`, `RECORD_CAP`, `FIELD_CAP` and the limits of `HdbScans` are the code's
own caps, made small so that they are met. `CHECK_DEADLOCK FALSE` is set where a
bounded list, walk, clock or command really comes to an end; the shell runs check
for deadlock.

What the properties of the Python modules leave open on purpose. `IndexesAgree`
compares the three id indexes only where an id has one target in all of them: with
several, each takes the first of its own order. `PythonAgreesWithEngine` excepts
the texts `int()` accepts and the C++ grammar does not (`+5`, `1_000`), and for the
timeline the flows with uninterpreted effects: the engine lists the declared
variables after every trigger, Python only after interpreted ones.
`SceneFilesTogether` excepts two scenes whose names have one slug, and lets the
Markdown of a scene be the storyboard of the one whose name it continues.
`ScansAgree` says that a VCNav has a label only where the page index sees strings,
except when the payload has a tab or a DEL: `navigation_targets.py:49` takes both
for text (DEL stands for the `/` of a label), `page_index.py:19` takes neither.
`ScenesTellTheTables` says which triggers a
scene has by its own spelling and which it cannot have; that scopes of which one
begins the other share triggers is modelled, and left open.
`ReadsWhatWasWritten` knows that the writer leaves out the objects a record holds
(it says so), and that an object behind the last byte is absent without an error.

What `nl_records` leaves out. Where a read finds its tag in front of a value of
another width (`ReadAcross`; it needs records of different versions, or a class
nobody knows), the bytes behind it decide what is read next. They are not
modelled; the run ends there, and `NeverMisread` says nothing about it. A tag the
reader does not ask for is always refused, and that is what the property shows:
no mixture of versions, cut or unknown class is accepted as another tree as long
as widths agree. The 16-bit length of `write_string` is not exercised: none of
the 51 classes reads or writes a string.

**Fairness.** `FairPlayback` of `FmvPlayback` asks for weak fairness of three
actions: the clock advances (`FramePeriod`), the render loop turns (`PumpFrame`:
`while (running)` polls without blocking and pumps on every turn), and the audio
device consumes what is queued (`TrackEnds`). Nothing
forces a film to be opened. `PlaybackEnds` needs exactly this. What is queued while the device plays is not
bounded by the code (replays pile up); `MaxQueue` bounds it in the model. That every frame
period has a pump is not assumed: the history variable `late` remembers whether
one was missed, and `TimelyFilmIsComplete` speaks of films that never were.

**Disagreements** between the code and what the repository says of it.
`typed_records` is the run that shows one; `PROJECT.json` quotes the lines under
`findings`. The extractor of typed records cuts the file into pages at multiples
of 256, every other reader begins the pages behind the 32-byte header, so records
are missing from its list. Further ones were met while modelling; the models
follow the code.

* `xfiles_engine.cpp:985-986` says "reaching the last phase counts as a completion",
  and `:1008` "treat as completion once". The code counts no completion when a
  machine reaches its last phase, one when all checkpoints have fired there, and,
  since those are not cleared, one more (`:1013`) for every later pass of the
  location. `TotalsAccount` and `TotalsAreOfTheLocations` state what is counted:
  with n passes of a machine that takes r of them, n - r + 1 completions, not one.
* `decoded_records.py:3-10` says the decode with "Maximum bytes_consumed" is kept,
  ties broken by concrete fields. `best_decode_at` (`:174-180`) keeps the first class
  with the highest score, in which a byte is one point and a plausible number five:
  over one record of the model twelve bytes of VCEnabled (27) win over fourteen of
  VCIdeaMap (14). `DecodersAgree` is about the scores.
* `scene_readable.py:3-10` says each scene has its Markdown in `scene_<slug>.md`. The
  storyboard step writes `scene_<slug>_storyboard.md` into the same directory
  afterwards (`scene_storyboard.py:341`), which is the Markdown of a scene called
  "X Storyboard". The model has both as one path; `SceneFilesTogether` says what is
  then found there.
* `navigation_targets.py:49` takes tab and DEL for text, `page_index.py:19` takes
  neither: a VCNav may have a label on a page that is reported without strings.
* `fmv_player.h:34-36` says a failed `open` leaves the player empty. A file `qt_load`
  refuses leaves the tracks of the film before it, another codec its own. The
  replay of a startup film that has gone bad ignores the result: `attach` puts up
  the first frame of the last scene's film and queues its sound again, and nothing
  moves, `done_` having stayed true.
* `sdl2_main.cpp:17` says SPACE replays the current scene; at the end of the flow
  (`:332`) it plays the film of the startup scene over the hotspots of the current
  one. `docs/ENGINE.md:174` says each step of the walk maps to a real scene;
  `sdl2_main.cpp:329` moves the index also when the step has none and is refused.
* `fmv_player.h:52` says `done()` means every frame was presented; a late pump
  (`fmv_player.cpp:144`) sets it and skips the rest.
* `hdb_serializer.h:114` says each write produces what the matching read takes;
  `vc_conversation.cpp:80` asks the serializer, once for the tree, for the version
  that gates a field, and `Read` asks the record. A tree of records that need
  different fields cannot be written so that it is read back.
* `dispatcher.py:1-9` promises the results of the C++ dispatcher; see the two
  exceptions above.
* `MasterHDBResolver` and the leaf resolver take `len(raw) // 256` for the number
  of pages and the container `(len(raw) - 32) // 256`: when the trailer has 224
  bytes or more, the constructor ends in an `IndexError` (`phase = "failed"`).
* `master_resolver.py:39` calls `neoidlist_records` "literally"
  `extend_with_class_index({0x07, 0x0B})`; the first takes markers on the slots of
  eight up to the next of them, the second markers anywhere up to the next one
  anywhere, so that a marker off the slots makes them differ.
* `leaf.py` says no two records of a leaf overlap; an `NPfl` record runs to the next
  `NPfl`, over an id list that begins in between. `btree_pages.py` documents the
  class of a marker at +4 and reads it at +6.
* `conversations.py:87` says edges are emitted when both ends are byte-direct; an
  entry of a container always gets its edge.
* Readable scenes and storyboards link to `../json/udfs.json` and
  `scene_conversations.md`, which no step writes. One range of script ids lies
  within another that is tested first, so its category stays empty; a run without
  scripts leaves those of an earlier run.
* `game-def` writes the file and audits it afterwards; a violation ends the command
  with 1 but leaves the file. (`ReportedCountsAreFound` shows none occurs.)
* `decode_typed_record` keeps the zeros of a read that failed, without a sign of it.

## Proofs

All proofs are for arbitrary constants that satisfy the named assumptions:
finitely many variables, literals distinct from `true` and `false`, sentinel
values outside the sets they extend, scenes without `.HOT` have no hotspots
(`load_hot_file` returns an empty list), films without a video track have no
frames and the others begin with a key frame or a damaged one
(`KeyFirstAssumption`: it is what makes the first picture independent of the film
before); a database file is a sequence of words no shorter than its header (the
container refuses a shorter one), its header and its pages are multiples of eight bytes, the rows of a table page begin at a multiple of four,
`None` is no number; the triggers of `game_definition.json` are a
list, its scenes finitely many, each with a number of phases and lists of
checkpoints and trigger ids; a table an extraction finds is a list of rows
and the name of a scene a list of words; a body
of a persistent class is a list of reads (writes), one for each member, pointers
and vectors with the tags of `read_obj` and `read_obj_list` (`WellFormed`). A class
of the Python registry is a list that begins with `BaseInit` and goes on with reads
as `spec.py` has them, each of the width of its kind; what a record is filled with
fits them: as many bytes as the read takes, a text of less than 65 536, a handle
that is not the mark of no object (`SpecsAssumption`, `VersionsAssumption`,
`BytesAssumption`). The
flow, the scene map, the triggers, the hotspots, the films, the phase machines, the
database files, the sets of classes and what a run of `extract` finds are otherwise
arbitrary, and so are the classes, the trees and the sizes of the record model.
Some theorems have a hypothesis about the data. Those about reading back are for
classes whose `Write` body is their `Read` body (`BodiesAgree`); that the bodies
translated from the source are such is the lemma `CodeBodiesAgree`, and without it
the claim is false, as the mutants of the layouts show. `TimelineIsComplete` is
about triggers that declare the variable they set (`WritesDeclared`), as all do
whose record `triggers_full.py:15-22` makes, the trigger's id being that variable;
for others the engine's timeline is silent about what they wrote.

* `LoopIsClosedForm`, `ResolverIsClosedForm`: the invariant "state = closed form
  of the consumed prefix" is inductive with the type invariant; the step is a
  lemma about appending one element (`DispatchAppend`, `MatchAppend`), which
  rests on how a maximum or minimum of indices changes when the list grows.
* `MutationsAreComplete` is inductive with the types: the new last entry is the
  value just written.
* `ResolvedIsStable` follows from the body of the loop: a byte-direct match is
  never improved on.
* `ShellTypes` is the type invariant, one step per handler. Its parts "an index
  exactly when an anchor" and "a live process has a scene" are needed below.
* `ShellSceneMatchesPlace` and `ShellNoForeignPicture` need that the scene and the
  film are assigned together by the two places that enter a scene;
  `ShellNoForeignPicture` in addition that a replay opens the startup film and
  that `pump` never changes the film (`VideoKept`).
* `ShellNearestStop` is inductive: one more step in the same direction adds one
  stray step (`StraysGrow`), turning back removes one, an entered step has none
  (`StraysNone`).
* `ShellEntryEffectsHold` rests on `DispatchIdempotent`: firing a list twice
  changes no value the second time.
* `ShellCountersCover` rests on `DispatchCovers`: a dispatch adds at least as many
  to a counter as there are new variables of that kind.
* `ShellImplementsWalkthrough`: initial states map to initial states and each
  handler to a `Walkthrough` step or a stutter. `Launch` is `Begin`; entering a
  step is `Travel`, where `NearestStop` supplies that the step entered is the
  next stop in its direction, or the same stop again.
* `PlaybackShowsCurrentFrame` and `PlaybackIsComplete` share an invariant (`IInv` of
  `Shell_proofs`): while a film plays, the source and the decoder belong to it
  as the texture does (`Shown`), since a pump continues the decoder's picture, not
  the texture's; and as long as no pump was late the clock is at most one frame
  ahead, and not at all right after a pump (`UpToDate`), so that the film ends on its
  last frame. `PumpShows` and `OpenedShows` are the two ways into a playing state; a
  file that cannot be opened leaves the player over (`AttachStaysOver`), so that
  a replay that ignores both results plays no film.
* `PlaybackGoesForward` follows from `PumpKeeps`.
* `EveryIdLeads`: the invariant (`IInv` of `HdbIndex_proofs`) says of an id of the
  index that it either points to its first record among the pages indexed so far
  (`FirstRecord`), or was added by a pair and has no record there (`Added`), and
  that every record's id is in the index. The last part is needed for both others:
  a page adds the record of a new id as its first one, and an extension adds only
  ids without records, because no earlier page had one. `IndexPageKnown` and
  `ExtendByKnown` are the two steps; that a slot's marker is one of the file's and
  that later pages lie behind earlier ones is arithmetic of the layout, that a
  record's number tells its slot is `RecIdxGrows`, and that the pairs of a scope or
  a class are among those of the whole file bounds their regions
  (`ScopePairsAreGlobal`, `ClassPairsAreGlobal`).
* `ExtensionsKeep`: what an extension adds is outside both members of the resolver
  (`NewIds`), and `Extended` leaves the keys it finds; nothing else changes a
  resolver once it is attached.
* `SiblingsAgree`: a row of a table page that leads behind the header, and an
  accepted pair of `HandleResolver`, is a pair of the global sweep as soon as its id
  is in range (`TablesAreNamed`, `HandlesAreNamed`, `NamedIsTarget`), so the global
  extension of any resolver knows the id and leads to a marker (`GlobalKnows`, from
  the invariant above); with one target there is no choice (`OneTarget`). The
  reports have an invariant of their own (`Reported`): between the classes of an
  extension the report has the size of the index, and what was added is the sum
  over the classes done, which are none of the classes left. It rests on
  `ExtendByGrows` (what an extension adds is disjoint from what was there) and
  `SumOneMore`. The proof is why the property excepts rows that lead into the
  header: `MasterIndex` validates a row by a marker anywhere from offset 0, the
  sweeps look from the end of the header on, and the header is not validated.
* `ScansTellOneStory`: every part of `ScansAgree` is about the file alone, so the
  invariant only says that there is one. The pages cut the file where the container
  cuts it (`PageCuts`), and joined again they are it (`FlatPages`, an induction along
  the chain of concatenations that `FlattenSeq` is; `PartsAddUp`). An offset belongs
  to one page and one slot (`OnePage`), so that what the record index has there is
  the record a leaf, a VCNav or a pair means (`IndexHasSlot`, `FoundByOffset`), and
  what the walk finds there is one record: a list and an NPfl begin with different
  words, a leaf and an unclassified page have different tags (`BeginsAt`,
  `OneRecordBegins`). The text of a payload lies in its page, where it is part of a
  longer or equal run (`PageSlice`, `PlaceHasRun`, `LabelsAreStrings`): without a tab or a DEL the places
  of text are the same for both readers. The distance 0
  is tried first (`ExactOffsetStays`). The totals are sums of counts by a key
  (`CountByKey`, from `SumChange`).
* `MachinesFollowPasses`: `simulate_step` touches one location, so the invariant is
  that of one machine (`MachineOk`): when the checkpoints are distinct, the passes
  so far are whole rounds of them plus the passes into the current phase, and those
  fired are that many of the first (`InRound`); when one is declared twice, the
  machine stays in its first phase and the set of fired ones stays smaller than the
  list (`Stuck`, from `RepeatedAreFewer`). The round-robin index `fired.size() %
  checkpoints.size()` then names the first one not fired (`FiresNext`). That the
  phase is the quotient of the passes, capped at the last one, is `PhaseOfPasses`.
* `TotalsAreOfTheLocations`: both totals are sums over the catalogue (`SimInv`), and a
  pass changes one term of each (`SumChange`) by what it adds to the total:
  `PassAdvances`, `PassCompletes`. The second is where a one-phase machine, whose
  first completion counts as an advance, must not be counted again.
* `EngineAndShellAgree`: the two `VariableState`s agree in everything but the
  unknown ids the shell has counted (`DispatchInv`); a step keeps that because the
  triggers the engine finds, in order, are those the shell's list does not mark
  unknown (`FoundExists`, `StepAgrees`).
* `TimelineIsComplete`: within a step, the last entry that names a variable is the
  value the step leaves it with (`ListedIsFinal`), since the trigger that wrote it
  last declares it, and an entry a later trigger adds shows the same value.
* `BodiesKnowTheirVersion`: each frame has put aside what gates the body around it
  (`Nested`), so that the frame a return uncovers finds its own version again; at
  the outermost frame this is what the serializer started with.
* `WrittenTreesReadBack`, `CutFilesReadTrue`. That reading ends with what was
  written is not inductive: in between, the reader has less. The invariant
  (`TreeInv` of `NlRecords_proofs`) therefore remembers how the tree was written, as
  a function from step numbers to moments: objects, frames, output (`History`), each
  a step of `Write` after the one before (`WriteStep`), each `Written` (frames are
  about different objects, pointers ahead of a frame are null, a count only stands
  where a vector is) and each a part of what the writer ended with (`Grows`). The
  reader is always at one of these moments (`Follows`): same frames, same objects,
  except that a scalar may still be blank when some frame has it ahead (`Awaited`),
  because the writer makes an object whole and the reader a member at a time.
  `ReadFaced` is the step: the token the writer's next step put there is the one the
  reader asks for, its gate opens when the writer's did (`SameGates` and
  `VersionIsOwn`), so the reader goes on to the next moment and none of the failing
  branches is enabled. With no frame left nothing is awaited and the reader has the
  last moment, since every moment with an empty stack is the last
  (`TreeReadsBack`). Where the file ends, the moment so far is a part of the tree
  (`FollowsIsTrue`); when it ends in a header, `CutHeaderIsTrue` shows that the step
  the writer took there was the one that wrote an object. The history is of any
  length, so `TreeInv` itself is beyond TLC; its consequences are what the run
  checks.
* `DatabaseOfOneRun`: `DatabaseInv` says where the run is (`Position`), that the files
  of out/json the run has passed are its own (`ListedNow`), that the open
  transaction holds the tables inserted so far (`Transaction`), that no file is of a
  later run, and `SummaryBehind`, the first two parts of
  `WrittenBehindWhatItNames`. The order of `PROGRAM` enters through `StepAt` alone.
* `NothingNamesWhatIsNotThere` and `FourFilesOfEachScene`: `FilesInv` adds, for a run
  that has not failed, how far the four files of the scenes are (`Stage`): of those
  the loop has passed, the file of a slug is the one of the last scene of that name
  (`LastIs`, `LastGrows`); for the readable files, that the listing of the directory
  has each scene of this run in it somewhere (`ReadableNext`), whatever earlier runs
  left there; and that an index, of whatever run, is not younger than the files it
  names (`Behind`). A path is the slug with an ending, or with "_storyboard" before
  it, so that files of one kind differ when the slugs do (`PathsDiffer`), and a
  Markdown file is another scene's storyboard only when that scene's slug says so
  (`RetoldBy`). That slugs are lists follows from the tables being lists and the
  names of their scenes lists of words (`InputsAssumption`). That the four files tell one scene is `FourTellOneScene`, about
  the operators of `SceneFiles` alone.

* `UsageMapsTellWhatWasRead`: the invariant (`InTheFile` of `PyRecords_proofs`) is
  that the bytes the map knows lie between the record's start and the cursor, and
  are all of these as long as there was no error (`Marks`). Every read keeps it
  (`Follows`; `FetchesMore` for the reads of several numbers), because `_mark` is
  called with exactly the bytes the cursor passes. What `iter_unknown_ranges` then
  yields for a map whose known bytes are one interval is `MapOfInterval`.
* `RecordsReadBack`: that the fields read are those written is not inductive, the
  reader being somewhere in a sequence of bytes. The invariant (`InPlace`) says that
  there are positions `p` of the operations: operation `i` begins at `p[i - 1]` and
  its bytes stand there (`Laid`); and that the reader, before operation `k`, stands
  at `p[k - 1]` or behind the last byte of a file that is cut, has read one field for
  each operation the version has, and each is right (`Kept`). `LaidMore` is the
  writer's step, `KeptOn` the reader's: where the bytes of a field stand, or the part
  of them a cut left (`Stands`), the read takes the field and no byte more, or ends
  in an error (`Takes`, with one lemma for each kind of read up to `FieldTakes`).
  Objects are the exceptions the property names. Behind the last byte a handle is
  absent without an error (`ObjectMissing`), and nothing can follow it that is not
  absent or an error either; a tagged record does not hold its objects at all, and
  the reader looks for them in front of a byte that begins another field, which is
  never the tag of an object (`NoObjectThere`, from `FirstByte`: no tag is zero).
  That a version is needed before the gates may be asked is why `BaseInit` is first.

Induction over data is out of the prover's reach as a rule: the induction theorems
take an operator as a parameter. `ExtremaLemmas` goes round it where a proof needs
it, by stating induction over sets instead: a set of numbers that holds 0 and the
successor of each of its members holds all of them (`SetInduction`), from which
`FoldExists` gets that a fold over a finite set is a chain of its steps,
`SubsetInduction` that what the empty set has and one more element keeps every
finite set has, and `SumRecursion`, `SumChange` and `SumOneMore` the facts about sums.

Only model-checked: that playback ends (`PlaybackEnds`; liveness and `ENABLED` are
beyond the prover); of `NlRecords` that what is accepted is what was written
whatever the versions and the damage (`NeverMisread`: it is about readers that have
lost the writer, and rests on which tags follow which in the 51 classes); of
`ExtractRun` that the scenes tell the tables; of `PyRecords` that the two decoders agree; and everything about `GameExport`,
which runs over nested lists: its properties compare two programs over them item by
item, and what would have to be proved is the meaning of each of some hundred
definitions.

## Not modelled

* `--probe`, argument parsing and SDL start-up failures (they end the process), the
  printers of the engine, the PICT preview, the text of the Markdown files.
* The JSON readers and writers: recursive descent over nested text. Their results
  enter the models as rows.
* The C++ HDB layer (`cpp/src/hdb`): only a printing tool calls it. Its Python
  counterparts, which produce the game's data, are modelled. Noted there, without
  a property: a missed tag keeps the payload pointer of the resynchronised
  position (`tlv_reader.cpp:42`); `HDBLazyResolver::get` marks itself cached before
  the lookup (`master_hdb.cpp:320`); all write contexts share one buffer
  (`hdb_context.cpp:36`); `read_uint32_field` ignores its tag (`hdb_tlv.cpp:55`).
* `cpp/src/vc`: 54 classes that are straight lists of reads and writes, without
  state or branch of their own; the lists of the persistent classes are modelled.
* The byte layout of `.HOT` files with the 32-bit size test of `hsp_loader.cpp:23`,
  the quoting of values in the save file (`dispatcher.h:251`), the length of
  `write_string` above 65 535 (`hdb_serializer.cpp:189`, and its Python twin, which
  raises), and the `location` member of a scene that differs from its key
  (`xfiles_engine.cpp:991`): each needs a file nobody's tool writes.
* The arithmetic of the codecs: pixels and samples. What the player tells apart of
  them is modelled.
* The converters of single asset files (mov, pff, loc, hot, gam) and the joins on
  their results: one pass, one file in, one file out.
* `trigger_system.py` (a static table of names), the commands `audit` and those of
  a single extractor, and `tools/validate_release.py`, which compares a release
  with numbers written into the script.
