---------------------------- MODULE MCSettingsCodec ----------------------------
(* SettingsCodec for TLC.                                                        *)
EXTENDS SettingsCodec

MCStrings == {"", "direct", "passthrough", "flat", "gradient", "window", "Recommended", "Off",
              "plain", "quoted", "control"}
MCQuoting == {"quoted"}
MCControl == {"control"}

\* A whole cent, finer ones, one past each end of a slider, a paper white too dark
\* and one that is not, and the automatic one.
MCNumbers == {400, 1997, 2604, -1500, 50000, 300004, 0}

\* In range, past both ends, and two that the width cuts.
MCIntegrals == {2, 7, -3, 65537, 40000}

MCTouched == {"intensity", "skin_structure", "paper_white_nits", "style", "auto_mask",
              "flow_grid_size", "neural_pass", "per_pass_tuning"}

\* A pass of each file that says one thing of its own, a rectangle, and a second
\* look for the window.
MCAdditions == {[header |-> "nr.pass", keys |-> [intensity |-> 1234]],
                [header |-> "preset.nr.pass", keys |-> [style |-> 1]],
                [header |-> "ui_mask", keys |-> [left |-> 40000, top |-> 2, right |-> Wrong]],
                [header |-> "app_look", keys |-> [window_class |-> "window", preset |-> "plain"]]}
===============================================================================
