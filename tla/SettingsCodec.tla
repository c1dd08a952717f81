----------------------------- MODULE SettingsCodec -----------------------------
(***************************************************************************)
(* The settings as text: ParseConfig and SerializeConfig, ParsePresets and *)
(* SerializePresets (src/common/core/Config.cpp), between what the manager *)
(* holds and the two files, which a hand may edit while it is closed.      *)
(* SettingsFlow has who writes and reads them when; here is what becomes   *)
(* of each value on the way.                                               *)
(*                                                                         *)
(* A file is a sequence of sections, each a header and a table of the keys *)
(* it names.  Numbers are in thousandths, one digit finer than the text.   *)
(***************************************************************************)
EXTENDS Integers, Sequences, SequencesExt

CONSTANTS
  Strings,            \* a title, a name, a neural pass
  Quoting, Control,   \* those with a quote or backslash, with a control character
  NaN,                \* the number that is none, which TOML can spell
  Wrong,              \* a value of another type than the key's
  None, Unreadable,   \* no such file; one that TOML does not allow
  IntModulus,         \* 2^32
  Numbers, Integrals, \* what a hand writes for a number and for an integer
  Touched,            \* bound of the model: the keys a hand or the operator changes
  Additions,          \* sections a hand appends
  MaxPassCount,       \* typed into the slider of passes
  MaxEdits, MaxPresets

\* No text.
Empty == ""

ASSUME CodecAssumption ==
  /\ {Empty, "direct", "passthrough", "flat", "gradient", "window", "Recommended", "Off", "plain"} \subseteq Strings
  /\ Quoting \subseteq Strings /\ Control \subseteq Strings
  /\ Wrong \notin Int \cup BOOLEAN \cup Strings \cup {NaN} /\ NaN \notin Int
  /\ IntModulus \in Nat /\ IntModulus \div 2 > 256 /\ Integrals \subseteq Int /\ Numbers \subseteq Int
  /\ MaxPassCount \in Nat /\ MaxEdits \in Nat /\ MaxPresets \in Nat

VARIABLES
  text, presetText,   \* sidecar.toml, presets.toml
  config, presets,    \* the manager's
  saved,              \* history: the configuration text was written from
  seen,               \* history: presets.toml as the manager knows it
  edits
codecVars == <<text, presetText, config, presets, saved, seen, edits>>

-------------------------------------------------------------------------------
(* The tables, with their defaults and the ranges of their numbers.        *)

BasePass == [preset |-> 0, style |-> 0, intensity |-> 1000, local_structure |-> 1000,
             local_tone |-> 1000, skin_structure |-> -1000,
             auto_mask |-> TRUE, ui_correction |-> TRUE]
BaseFrame == [bridge |-> FALSE, paper_white_nits |-> 0, colour_preserve |-> 1000,
              highlight_protect |-> 600, split_view |-> 0, model_scale |-> 1000,
              final_pass_full |-> FALSE, per_pass_tuning |-> FALSE, chain_composed |-> TRUE]
NrSettings == [base |-> BasePass, frame |-> BaseFrame, passes |-> <<>>]
LookTop == [neural_pass |-> "direct", flow_grid_size |-> 4, synthetic_depth |-> 0]
BaseTop == [neural_pass |-> "direct", flow_grid_size |-> 4, synthetic_depth |-> 0,
            show_hud |-> TRUE, show_overlay |-> TRUE, depth_mode |-> "flat",
            depth_inverted |-> FALSE, active_preset |-> "Recommended",
            advanced_tuning |-> FALSE, ui_mask_feather |-> 24]
NoApp == [name |-> Empty, window_class |-> Empty, title |-> Empty]
Defaults == [top |-> BaseTop, app |-> NoApp, nr |-> NrSettings, looks |-> <<>>, rects |-> <<>>]

FloatRange ==
  [intensity |-> <<0, 2000>>, local_structure |-> <<0, 2000>>, local_tone |-> <<0, 2000>>,
   skin_structure |-> <<-1000, 2000>>, paper_white_nits |-> <<0, 1000000>>,
   colour_preserve |-> <<0, 1000>>, highlight_protect |-> <<0, 1000>>,
   split_view |-> <<0, 1000>>, model_scale |-> <<500, 1000>>, synthetic_depth |-> <<0, 1000>>]
IntRange == [preset |-> <<0, 3>>, style |-> <<0, 2>>, ui_mask_feather |-> <<0, 256>>]
Floats == DOMAIN FloatRange
Ints == DOMAIN IntRange
NoRect == [left |-> 0, top |-> 0, right |-> 0, bottom |-> 0]

\* What a hand appends has values of the keys' types, or none; a look has texts.
IsTyped(k, v) ==
  /\ k \in Floats => v \in Int \cup {NaN}
  /\ k \in Ints \cup DOMAIN NoRect => v \in Int
TypedSection(s) ==
  /\ s = [header |-> s.header, keys |-> s.keys]
  /\ s.header # "app_look" => \A k \in DOMAIN s.keys : s.keys[k] # Wrong => IsTyped(k, s.keys[k])
ASSUME AdditionsAssumption == \A s \in Additions : TypedSection(s)

-------------------------------------------------------------------------------
(* Reading.                                                                *)

Clamp(v, range) == IF v < range[1] THEN range[1] ELSE IF v > range[2] THEN range[2] ELSE v

\* static_cast<int> of the file's 64 bits.
Wrapped(v) ==
  LET r == v % IntModulus IN IF r < IntModulus \div 2 THEN r ELSE r - IntModulus

\* NaN is neither below nor above the range.
Legal(k, v) ==
  CASE k \in Floats -> IF v = NaN THEN NaN ELSE Clamp(v, FloatRange[k])
    [] k \in Ints -> Clamp(Wrapped(v), IntRange[k])
    [] OTHER -> v

\* A key that is not there, or of another type, leaves what is inherited.
Says(keys, k) == k \in DOMAIN keys /\ keys[k] # Wrong
ReadTable(keys, inherited) ==
  [k \in DOMAIN inherited |-> IF Says(keys, k) THEN Legal(k, keys[k]) ELSE inherited[k]]

\* The sections of one name, in their order.
Collect(found, s, header) == IF s.header = header THEN Append(found, s) ELSE found
Sections(file, header) == FoldLeft(LAMBDA found, s : Collect(found, s, header), <<>>, file)
Table(file, header) ==
  LET of == Sections(file, header) IN IF of = <<>> THEN <<>> ELSE of[1].keys

ReadTop(keys, inherited) ==
  LET read == ReadTable(keys, inherited)
  IN [read EXCEPT
       !.neural_pass = IF @ \in {"reshade", "ngx"} THEN "direct" ELSE @,
       !.flow_grid_size = IF @ \in {1, 2, 4} THEN @ ELSE inherited.flow_grid_size]

\* Below 80 nits there is no display; 0 is automatic.
Paper(v) == IF v # NaN /\ v < 80000 THEN 0 ELSE v

PassHeader(prefix) == IF prefix = "nr" THEN "nr.pass" ELSE "preset.nr.pass"

\* Mutant: every pass the file has is kept.
ReadNrAll(file, prefix) ==
  LET keys == Table(file, prefix)
      base == ReadTable(keys, BasePass)
      passes == Sections(file, PassHeader(prefix))
  IN [base |-> base,
      frame |-> [ReadTable(keys, BaseFrame) EXCEPT !.paper_white_nits = Paper(@)],
      passes |-> [i \in DOMAIN passes |-> ReadTable(passes[i].keys, base)]]

\* Each pass starts from the base; the first four are kept.
ReadNr(file, prefix) ==
  LET keys == Table(file, prefix)
      base == ReadTable(keys, BasePass)
      passes == Sections(file, PassHeader(prefix))
  IN [base |-> base,
      frame |-> [ReadTable(keys, BaseFrame) EXCEPT !.paper_white_nits = Paper(@)],
      passes |-> [i \in DOMAIN passes \cap 1 .. 4 |-> ReadTable(passes[i].keys, base)]]

\* The later of two looks for one window class takes the place of the first.
Remember(looks, cls, look) ==
  LET at == SelectInSeq(looks, LAMBDA l : l.window_class = cls)
  IN IF cls = Empty \/ look = Empty THEN looks
     ELSE IF at = 0 THEN Append(looks, [window_class |-> cls, preset |-> look])
     ELSE [looks EXCEPT ![at].preset = look]

NoLook == [window_class |-> Empty, preset |-> Empty]
ReadString(keys, inherited) ==
  [k \in DOMAIN inherited |-> IF Says(keys, k) THEN keys[k] ELSE inherited[k]]
AddLook(looks, s) ==
  LET l == ReadString(s.keys, NoLook) IN Remember(looks, l.window_class, l.preset)
ReadLooks(file) == FoldLeft(AddLook, <<>>, Sections(file, "app_look"))

\* Edges are not clamped, only cut to their width.
ReadRects(file) ==
  LET of == Sections(file, "ui_mask")
  IN [i \in DOMAIN of |->
       [e \in DOMAIN NoRect |-> IF Says(of[i].keys, e) THEN Wrapped(of[i].keys[e]) ELSE 0]]

ParseConfig(file) ==
  IF file = Unreadable THEN Defaults
  ELSE [top |-> [ReadTop(Table(file, "top"), Defaults.top) EXCEPT
                   !.depth_mode = IF @ \in {"flat", "gradient"} THEN @ ELSE "flat"],
        app |-> ReadString(Table(file, "app"), Defaults.app),
        nr |-> ReadNr(file, "nr"), looks |-> ReadLooks(file), rects |-> ReadRects(file)]

-------------------------------------------------------------------------------
(* Writing.                                                                *)

\* Mutant: the digits after the second are cut off.
NumberCut(v) == IF v = NaN THEN NaN ELSE (v \div 10) * 10
\* "%.2f".
Number(v) == IF v = NaN THEN NaN ELSE ((v + 5) \div 10) * 10

WriteTable(header, table) ==
  [header |-> header, keys |-> [k \in DOMAIN table |->
                                  IF k \in Floats THEN Number(table[k]) ELSE table[k]]]
WriteAll(header, tables) == [i \in DOMAIN tables |-> WriteTable(header, tables[i])]
\* A look names a preset, which is no number here.
WriteStrings(header, tables) ==
  [i \in DOMAIN tables |-> [header |-> header, keys |-> tables[i]]]

\* Two tables under one header.
Both(t, u) == [k \in DOMAIN t \cup DOMAIN u |-> IF k \in DOMAIN t THEN t[k] ELSE u[k]]
WriteNr(nr, prefix) ==
  <<WriteTable(prefix, Both(nr.frame, nr.base))>> \o WriteAll(PassHeader(prefix), nr.passes)

\* Quoted doubles backslashes and quotes and writes other characters as they are;
\* TOML has no control characters in a string.  neural_pass is written unquoted.
Quotable(s) == s \notin Control
Writable(strings, pass) ==
  (\A s \in strings : Quotable(s)) /\ pass \notin Quoting \cup Control

SerializeConfig(c) ==
  LET strings == {c.top.active_preset} \cup {c.app[k] : k \in DOMAIN c.app}
                 \cup UNION {{l.window_class, l.preset} : l \in ToSet(c.looks)}
  IN IF ~ Writable(strings, c.top.neural_pass) THEN Unreadable
     ELSE <<WriteTable("top", c.top), WriteTable("app", c.app)>> \o WriteNr(c.nr, "nr")
          \o WriteStrings("app_look", c.looks) \o WriteStrings("ui_mask", c.rects)

-------------------------------------------------------------------------------
(* Presets.                                                                *)

PresetOf(name, c) ==
  [name |-> name, builtin |-> FALSE, top |-> [k \in DOMAIN LookTop |-> c.top[k]], nr |-> c.nr]
ApplyPreset(p, c) ==
  [c EXCEPT !.top = Both(p.top, [@ EXCEPT !.active_preset = p.name]), !.nr = p.nr]

Cinematic == [BasePass EXCEPT !.style = 2, !.local_structure = 950, !.local_tone = 650,
                              !.skin_structure = 400]
BuiltinPresets ==
  <<[name |-> "Recommended", builtin |-> TRUE, top |-> LookTop,
     nr |-> [base |-> Cinematic, passes |-> <<Cinematic, Cinematic>>,
             frame |-> [BaseFrame EXCEPT !.colour_preserve = 900, !.highlight_protect = 600,
                                         !.model_scale = 500, !.final_pass_full = TRUE]]],
    [name |-> "Off", builtin |-> TRUE, nr |-> NrSettings,
     top |-> [LookTop EXCEPT !.neural_pass = "passthrough"]]>>

\* Floats are compared as such: NaN is not itself.
Same(a, b) == a = b /\ \A k \in DOMAIN a : a[k] # NaN
Effective(nr) == IF nr.passes = <<>> THEN <<nr.base>> ELSE nr.passes
SameNr(a, b) ==
  LET compared(nr) == [k \in DOMAIN BaseFrame \ {"split_view", "per_pass_tuning"} |-> nr.frame[k]]
  IN /\ Same(compared(a), compared(b))
     /\ Len(Effective(a)) = Len(Effective(b))
     /\ \A i \in DOMAIN Effective(a) : Same(Effective(a)[i], Effective(b)[i])
PresetMatches(p, c) ==
  /\ p.top.neural_pass = c.top.neural_pass
  /\ \/ p.top.neural_pass = "passthrough"
     \/ Same(p.top, [k \in DOMAIN LookTop |-> c.top[k]]) /\ SameNr(p.nr, c.nr)

\* Mutant: a preset's numbers lose the digits after the second, unrounded.
CutTable(t) == [k \in DOMAIN t |-> IF k \in Floats THEN NumberCut(t[k]) ELSE t[k]]
WritePresetCut(p) ==
  <<WriteTable("preset", Both([name |-> p.name], p.top))>>
  \o WriteNr([p.nr EXCEPT !.base = CutTable(@), !.frame = CutTable(@),
                          !.passes = [i \in DOMAIN @ |-> CutTable(@[i])]], "preset.nr")
WritePreset(p) ==
  <<WriteTable("preset", Both([name |-> p.name], p.top))>> \o WriteNr(p.nr, "preset.nr")

SerializePresets(all) ==
  IF \E p \in ToSet(all) : ~ p.builtin /\ ~ Writable({p.name}, p.top.neural_pass) THEN Unreadable
  ELSE FlattenSeq([i \in DOMAIN all |-> IF all[i].builtin THEN <<>> ELSE WritePreset(all[i])])

\* What follows a preset's header, up to the next one, is that preset's.
PresetAt(file, i) ==
  LET next == {j \in i + 1 .. Len(file) : file[j].header = "preset"}
      part == SubSeq(file, i, IF next = {} THEN Len(file) ELSE Min(next) - 1)
  IN [name |-> ReadString(part[1].keys, [name |-> Empty]).name, builtin |-> FALSE,
      top |-> ReadTop(part[1].keys, LookTop), nr |-> ReadNr(part, "preset.nr")]

\* A preset without a name, or with one that is taken, is left out.
AddPreset(file, all, i) ==
  LET p == PresetAt(file, i)
  IN IF file[i].header # "preset" \/ p.name = Empty \/ \E q \in ToSet(all) : q.name = p.name THEN all
     ELSE Append(all, p)
\* A file that is not there is like an empty one.
AllPresets(file) ==
  IF file = Unreadable THEN BuiltinPresets
  ELSE FoldLeft(LAMBDA all, i : AddPreset(file, all, i), BuiltinPresets, [i \in DOMAIN file |-> i])

-------------------------------------------------------------------------------
(* The manager's Tuning page.                                              *)

\* Drawn with passes that differ, it shows them pass by pass.
Shown(nr) ==
  [nr EXCEPT !.frame.per_pass_tuning = @ \/ \E i \in DOMAIN nr.passes \ {1} : ~ Same(nr.passes[i], nr.passes[1])]

\* Otherwise the controls are the first pass's, copied to the rest.
Propagated(nr) ==
  IF nr.passes = <<>> \/ nr.frame.per_pass_tuning THEN nr
  ELSE [nr EXCEPT !.base = nr.passes[1], !.passes = [i \in DOMAIN @ |-> nr.passes[1]]]

Drawn(nr) == Propagated(Shown(nr))

\* The value v of the knob k of pass i.
Tuned(nr, i, k, v) ==
  LET s == Shown(nr)
  IN IF s.passes = <<>> THEN [s EXCEPT !.base[k] = v]
     ELSE Propagated([s EXCEPT !.passes[i][k] = v])

\* A slider's number is one of the text; one that is typed is any, which the slider
\* does not clamp.
FrameSliders == {"colour_preserve", "highlight_protect", "paper_white_nits"}

-------------------------------------------------------------------------------
(* Actions.                                                                *)

\* A file that is not there is a first run, on the first look.  A preset may have
\* been kept from before.
Loaded(file) ==
  IF file = None THEN ApplyPreset(BuiltinPresets[1], Defaults) ELSE ParseConfig(file)

CodecInit ==
  /\ text = None
  /\ presetText \in {<<>>, SerializePresets(<<PresetOf("plain", Defaults)>>)}
  /\ config = Loaded(None) /\ presets = AllPresets(presetText)
  /\ saved = None /\ seen = presetText
  /\ edits = 0

Edit == edits < MaxEdits /\ edits' = edits + 1
SetConfig(c) == config' = c /\ UNCHANGED <<text, presetText, presets, saved, seen>>
WriteConfig(c) ==
  /\ config' = c /\ saved' = c
  /\ text' = SerializeConfig(c)
  /\ UNCHANGED <<presetText, presets, seen>>

DrawTuning ==
  /\ SetConfig([config EXCEPT !.nr = Drawn(@)])
  /\ UNCHANGED edits

SlidePass ==
  /\ Edit
  /\ \E k \in Touched \cap DOMAIN BasePass, i \in DOMAIN Effective(config.nr) :
       /\ i = 1 \/ Shown(config.nr).frame.per_pass_tuning
       /\ k \in {"preset", "auto_mask", "ui_correction"} => config.top.advanced_tuning
       /\ \E v \in IF k \in Floats THEN Numbers
                   ELSE IF k \in Ints THEN IntRange[k][1] .. IntRange[k][2]
                   ELSE {~ Effective(config.nr)[i][k]} :
            SetConfig([config EXCEPT !.nr = Tuned(@, i, k, v)])

SlideFrame ==
  /\ Edit
  /\ \E k \in Touched \cap FrameSliders, v \in Numbers :
       SetConfig([config EXCEPT !.nr = Drawn([@ EXCEPT !.frame[k] = v])])

\* What is typed here can be more than the slider's four.
SlidePasses ==
  /\ Edit
  /\ \E n \in 1 .. MaxPassCount :
       LET effective == Effective(config.nr)
           passes == [i \in 1 .. n |-> effective[IF i \in DOMAIN effective THEN i ELSE Len(effective)]]
       IN SetConfig([config EXCEPT !.nr = Drawn(
            IF n = 1 THEN [@ EXCEPT !.base = effective[1], !.passes = <<>>]
            ELSE [@ EXCEPT !.passes = passes])])

\* Shown with several passes to those who tune advanced; unticked, the first pass's
\* settings become everyone's.
TuneSeparately ==
  /\ Edit
  /\ config.top.advanced_tuning /\ config.nr.passes # <<>>
  /\ LET s == Shown(config.nr)
     IN SetConfig([config EXCEPT !.nr = Propagated([s EXCEPT !.frame.per_pass_tuning = ~ @])])

ChoosePipeline ==
  /\ Edit
  /\ config.top.advanced_tuning
  /\ \E pass \in {"direct", "passthrough"}, grid \in {1, 2, 4} :
       SetConfig([config EXCEPT !.top.neural_pass = pass, !.top.flow_grid_size = grid])

ToggleAdvanced ==
  /\ Edit
  /\ WriteConfig([config EXCEPT !.top.advanced_tuning = ~ @])

ChoosePreset ==
  /\ Edit
  /\ \E p \in ToSet(presets) : SetConfig(ApplyPreset(p, config))

\* Any window may be chosen, whatever its title; its look comes with it.
ChooseTarget ==
  /\ Edit
  /\ \E title \in Strings \ {Empty} :
       LET cls == "window"
           known == {l.preset : l \in {m \in ToSet(config.looks) : m.window_class = cls}}
           at == SelectInSeq(presets, LAMBDA p : p.name \in known)
           c == [config EXCEPT !.app = [name |-> title, window_class |-> cls, title |-> title]]
       IN WriteConfig(IF at = 0 \/ config.top.active_preset \in known THEN c
                      ELSE ApplyPreset(presets[at], c))

SaveSettings ==
  /\ WriteConfig([config EXCEPT
       !.looks = Remember(@, config.app.window_class, config.top.active_preset)])
  /\ UNCHANGED edits

\* Under a name no built-in preset has; over the preset that has it.
SavePreset ==
  /\ Edit
  /\ \E name \in Strings \ (Control \cup {Empty, "Recommended", "Off"}) :
       LET p == PresetOf(name, config)
           at == SelectInSeq(presets, LAMBDA q : q.name = name)
           all == IF at = 0 THEN Append(presets, p) ELSE [presets EXCEPT ![at] = p]
       IN /\ Len(all) <= Len(BuiltinPresets) + MaxPresets
          /\ presets' = all
          /\ presetText' = SerializePresets(all) /\ seen' = presetText'
          /\ config' = [config EXCEPT !.top.active_preset = name]
          /\ UNCHANGED <<text, saved>>

\* The manager is closed, and opened again.
Reopen ==
  /\ config' = Loaded(text) /\ presets' = AllPresets(presetText)
  /\ seen' = presetText
  /\ UNCHANGED <<text, presetText, saved, edits>>

\* Every way a hand may change one key, or add a section.
ByHand(file) ==
  LET values(k) == {Wrong} \cup (IF k \in Floats THEN Numbers \cup {NaN}
                                 ELSE IF k \in Ints \cup DOMAIN NoRect \cup {"flow_grid_size"} THEN Integrals
                                 ELSE IF k = "neural_pass" THEN Strings ELSE BOOLEAN)
      change(i, k) == {[file EXCEPT ![i].keys[k] = v] : v \in values(k)}
                      \cup {[file EXCEPT ![i].keys = [j \in DOMAIN @ \ {k} |-> @[j]]]}
  IN (UNION {UNION {change(i, k) : k \in Touched \cap DOMAIN file[i].keys} : i \in DOMAIN file})
     \cup {Append(file, s) : s \in Additions}

EditText ==
  /\ Edit /\ text \notin {None, Unreadable}
  /\ text' \in ByHand(text)
  /\ saved' = None
  /\ UNCHANGED <<presetText, config, presets, seen>>

EditPresetText ==
  /\ Edit /\ presetText \notin {<<>>, Unreadable}
  /\ presetText' \in ByHand(presetText)
  /\ UNCHANGED <<text, config, presets, saved, seen>>

Manager == DrawTuning \/ SlidePass \/ SlideFrame \/ SlidePasses \/ TuneSeparately \/ ChoosePipeline
           \/ ToggleAdvanced \/ ChoosePreset \/ ChooseTarget \/ SaveSettings \/ SavePreset \/ Reopen

CodecNext == Manager \/ EditText \/ EditPresetText

CodecSpec == CodecInit /\ [][CodecNext]_codecVars

-------------------------------------------------------------------------------
(* Properties.                                                             *)

IsLegal(k, v) ==
  /\ k \in Floats => v = NaN \/ (FloatRange[k][1] <= v /\ v <= FloatRange[k][2])
  /\ k \in Ints => IntRange[k][1] <= v /\ v <= IntRange[k][2]
  /\ k = "flow_grid_size" => v \in {1, 2, 4}
  /\ v # Wrong
LegalTable(t) == \A k \in DOMAIN t : IsLegal(k, t[k])
LegalNr(nr) ==
  /\ Len(nr.passes) <= 4
  /\ LegalTable(nr.base) /\ LegalTable(nr.frame) /\ \A i \in DOMAIN nr.passes : LegalTable(nr.passes[i])
  /\ nr.frame.paper_white_nits \in {NaN, 0} \/ nr.frame.paper_white_nits >= 80000

\* Whatever a hand writes and an operator types, what is read from either file is
\* in the model's ranges, but for numbers that are none.
ReadIsLegal ==
  /\ LET c == ParseConfig(IF text = None THEN <<>> ELSE text) IN LegalTable(c.top) /\ LegalNr(c.nr)
  /\ \A p \in ToSet(AllPresets(presetText)) : LegalTable(p.top) /\ LegalNr(p.nr)

\* Two tables are alike up to half a unit of the last digit written.
Near(a, b) ==
  /\ DOMAIN a = DOMAIN b
  /\ \A k \in DOMAIN a :
       IF k \in Floats /\ a[k] # NaN /\ b[k] # NaN THEN a[k] - b[k] \in -5 .. 5 ELSE a[k] = b[k]
NearNr(a, b) ==
  /\ Near(a.base, b.base) /\ Near(a.frame, b.frame)
  /\ Len(a.passes) = Len(b.passes) /\ \A i \in DOMAIN a.passes : Near(a.passes[i], b.passes[i])

\* A string that no text can hold as it is written.
NotWritten(c) == SerializeConfig(c) = Unreadable

\* test_config.cpp:124: "a written config reads back as itself", to the two decimals
\* of the text -- except numbers typed past a slider's end, and strings with a
\* control character or, for the pass, a quote.
WrittenReadsBack ==
  (saved # None /\ ~ NotWritten(saved) /\ LegalTable(saved.top) /\ LegalNr(saved.nr)) =>
    LET read == ParseConfig(text)
    IN /\ Near(read.top, saved.top) /\ NearNr(read.nr, saved.nr)
       /\ read.app = saved.app /\ read.looks = saved.looks /\ read.rects = saved.rects

\* A preset whose text a hand wrote finer than the manager would.
FinerThanText(p) == \E t \in {p.top, p.nr.base, p.nr.frame} \cup ToSet(p.nr.passes) :
                      \E k \in DOMAIN t \cap Floats : t[k] # Number(t[k])

\* A look the manager shows as a preset's is that preset's too when both files have
\* been written and are read again, by the runtime or by a manager reopened.
LookKeepsItsName ==
  (saved # None /\ saved = config /\ text # Unreadable /\ seen = presetText /\ presetText # Unreadable) =>
    LET read == AllPresets(presetText)
    IN \A i \in DOMAIN presets :
         PresetMatches(presets[i], config) /\ ~ FinerThanText(read[i]) =>
           PresetMatches(read[i], ParseConfig(text))
===============================================================================
