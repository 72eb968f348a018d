----------------------------- MODULE SettingsPage -----------------------------
(* The page Settings of the web console (web/src/pages/Settings.tsx): the   *)
(* LLM settings of the user are loaded at the end of a chain of requests    *)
(* into a form that can be edited and saved at any time, also before they   *)
(* arrive.  The server stores and reads them one by one (settings.go); one   *)
(* that cannot be read is answered as if it were empty.                      *)
EXTENDS WebWorld, Naturals, Sequences, SequencesExt

CONSTANT Urls     \* base URLs a user may type; "bad" is none the server accepts

VARIABLES
    conf,         \* the stored settings: base, model and whether there is a token
    llm,          \* the form: base, model, token_configured and the typed token;
                  \* history: known, the fields last filled with a stored value
    saving,       \* savingLLM
    sops,         \* the loads and the save under way
    sclicks,      \* history: clicks and edits, bounded by world.clicks
    sfails,       \* history: requests that failed or were refused
    typed,        \* history: the fields the user has edited
    blind,        \* history: the fields that were saved while they were not known
    edited        \* history: edited since the last answer, or that answer was
                  \* overtaken by a save

setvars == <<conf, llm, saving, sops, sclicks, sfails, typed, blind, edited>>

LLMFields == {"base", "model"}
Models == {"gpt-4o-mini", "other"}
StoredAtFirst == [base |-> "old", model |-> "other", token |-> TRUE]
BlankForm == [base |-> "", model |-> "gpt-4o-mini", token |-> FALSE, input |-> FALSE,
              known |-> {}]

\* load asks for the health, the user and the settings, one after the other.
SettingsRequests == <<"health", "user", "llm">>
NoAnswer == [base |-> "", model |-> "gpt-4o-mini", token |-> FALSE, known |-> {}]
LoadOp == [kind |-> "load", at |-> 1, out |-> TRUE, clear |-> FALSE,
           sent |-> BlankForm, ans |-> NoAnswer, stale |-> FALSE]

Click == sclicks < world.clicks /\ sclicks' = sclicks + 1

ClickReload ==
    /\ Click /\ Len(sops) < 2
    /\ sops' = Append(sops, LoadOp)
    /\ UNCHANGED <<conf, llm, saving, sfails, typed, blind, edited>>

\* An input of the form changes.
Edit(field, value) ==
    /\ Click
    /\ llm' = [llm EXCEPT ![field] = value]
    /\ typed' = typed \cup {field}
    /\ edited' = TRUE
    /\ UNCHANGED <<conf, saving, sops, sfails, blind>>

\* saveLLM, or its button that clears the token.
SaveLLM(clear) ==
    /\ Click /\ ~saving /\ Len(sops) < 2
    /\ clear => llm.token
    /\ saving' = TRUE
    /\ sops' = Append(sops, [LoadOp EXCEPT !.kind = "save", !.clear = clear,
                                           !.sent = [llm EXCEPT !.input = @ /\ ~clear]])
    /\ blind' = blind \cup (LLMFields \ llm.known)
    /\ UNCHANGED <<conf, llm, sfails, typed, edited>>

\* A save overtakes the settings that are on their way to the form.
OvertakenSettings(i) ==
    [k \in DOMAIN sops |-> [sops[k] EXCEPT !.stale = @ \/ (k # i /\ ~sops[k].out)]]

\* UpdateLLMSettings: an empty token keeps the stored one.
Stored(sent, clear) ==
    [base |-> sent.base, model |-> sent.model,
     token |-> IF clear THEN FALSE ELSE conf.token \/ sent.input]

\* getLLMConfig: a setting whose read fails is empty, or the default, and the
\* answer does not tell.
Answer(c, unread) ==
    [base |-> IF "base" \in unread THEN NoAnswer.base ELSE c.base,
     model |-> IF "model" \in unread THEN NoAnswer.model ELSE c.model,
     token |-> c.token /\ "token" \notin unread,
     known |-> LLMFields \ unread]

\* The server serves a request of chain i.
ServeSettings(i, unread) ==
    LET op == sops[i]
    IN  /\ op.out
        /\ op.kind = "save" => op.sent.base # "bad"
        /\ unread # {} => /\ op.kind = "save" \/ SettingsRequests[op.at] = "llm"
                          /\ sfails < world.fails
        /\ sfails' = IF unread = {} THEN sfails ELSE sfails + 1
        /\ conf' = IF op.kind = "save" THEN Stored(op.sent, op.clear) ELSE conf
        /\ sops' = [IF op.kind = "save" THEN OvertakenSettings(i) ELSE sops
                       EXCEPT ![i].out = FALSE, ![i].ans = Answer(conf', unread)]
        /\ UNCHANGED <<llm, saving, sclicks, typed, blind, edited>>

\* The answered settings become the form.
Filled(ans) ==
    [base |-> ans.base, model |-> ans.model, token |-> ans.token, input |-> llm.input,
     known |-> ans.known]

\* A chain goes on to its next request, or ends.
SettingsGoOn(i) ==
    IF sops[i].kind = "load" /\ sops[i].at < Len(SettingsRequests)
    THEN sops' = [sops EXCEPT ![i].at = @ + 1, ![i].out = TRUE, ![i].stale = FALSE]
    ELSE sops' = RemoveAt(sops, i)

\* Mutant: the form keeps what was typed, also where nothing was.
SettingsArriveKept(i) ==
    LET op == sops[i]
    IN  /\ ~op.out
        /\ SettingsGoOn(i)
        /\ IF op.kind = "save"
           THEN saving' = FALSE /\ edited' = op.stale
                /\ llm' = [llm EXCEPT !.known = op.ans.known]
           ELSE saving' = saving /\ edited' = (edited /\ op.at < 3)
                /\ llm' = IF op.at = 3
                          THEN [llm EXCEPT !.known = op.ans.known, !.token = op.ans.token]
                          ELSE llm
        /\ UNCHANGED <<conf, sclicks, sfails, typed, blind>>

\* The answer arrives: the settings replace the form, edited or not; after a save
\* the typed token is dropped.
SettingsArrive(i) ==
    LET op == sops[i]
        fill == op.kind = "save" \/ SettingsRequests[op.at] = "llm"
    IN  /\ ~op.out
        /\ SettingsGoOn(i)
        /\ llm' = CASE op.kind = "save" -> [Filled(op.ans) EXCEPT !.input = FALSE]
                    [] op.kind = "load" /\ fill -> Filled(op.ans)
                    [] OTHER -> llm
        /\ saving' = (saving /\ op.kind # "save")
        /\ edited' = IF fill THEN op.stale ELSE edited
        /\ UNCHANGED <<conf, sclicks, sfails, typed, blind>>

\* A request or its answer fails, or a save is refused.  A save that fails may
\* have stored the base URL, or that and the model, before.
SettingsFail(i) ==
    LET op == sops[i]
        refused == op.kind = "save" /\ op.sent.base = "bad"
    IN  /\ (refused /\ op.out) \/ sfails < world.fails
        /\ sfails' = IF sfails < world.fails + 1 THEN sfails + 1 ELSE sfails
        /\ SettingsGoOn(i)
        /\ saving' = (saving /\ op.kind # "save")
        /\ \/ conf' = conf
           \/ /\ op.kind = "save" /\ op.out /\ ~refused
              /\ \/ conf' = [conf EXCEPT !.base = op.sent.base]
                 \/ conf' = [conf EXCEPT !.base = op.sent.base, !.model = op.sent.model]
        /\ UNCHANGED <<llm, sclicks, typed, blind, edited>>

SettingsInit ==
    /\ conf = StoredAtFirst /\ llm = BlankForm /\ saving = FALSE
    /\ sops = <<LoadOp>>
    /\ sclicks = 0 /\ sfails = 0 /\ typed = {} /\ blind = {} /\ edited = FALSE

SettingsNext ==
    /\ \/ ClickReload
       \/ \E u \in Urls : Edit("base", u)
       \/ \E m \in Models : Edit("model", m)
       \/ Edit("input", TRUE)
       \/ \E clear \in BOOLEAN : SaveLLM(clear)
       \/ \E i \in 1 .. Len(sops) :
             \/ \E unread \in SUBSET (LLMFields \cup {"token"}) : ServeSettings(i, unread)
             \/ SettingsArrive(i) \/ SettingsFail(i)
    /\ UNCHANGED world

-----------------------------------------------------------------------------
(* Properties.                                                              *)

\* A save changes only what the user has edited, however loads, edits and saves
\* interleave and fail (Settings.tsx 42-96, settings.go 42-111).  The button does
\* not wait for the settings, and a failed read looks like an empty setting: a
\* field that was saved before its stored value had arrived may be blanked, that
\* field only.
UntouchedSettingsKept ==
    \A f \in LLMFields \ typed :
        \/ conf[f] = StoredAtFirst[f]
        \/ f \in blind /\ conf[f] = BlankForm[f]

\* Once nothing is under way the button is back, and without failures, those of a
\* read in the database too, and edits since the last answer the form shows what
\* is stored.
SettingsSettled ==
    sops = <<>> =>
        /\ ~saving
        /\ sfails = 0 /\ ~edited =>
              <<llm.base, llm.model, llm.token>> = <<conf.base, conf.model, conf.token>>

=============================================================================
