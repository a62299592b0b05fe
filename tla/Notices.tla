------------------------------- MODULE Notices -------------------------------
(***************************************************************************)
(* What the servers say about a stored upload: the Discord and the HTTP    *)
(* webhook, and the page of a visitor, from templates with holes for       *)
(* properties of the file, its user and its links.                         *)
(*                                                                         *)
(* zipline fills one hole at a time and looks again from where it put the  *)
(* text, so holes in a value are filled too; the branch of a conditional   *)
(* is rendered by a call of its own.  Its regular expression ends a branch *)
(* where one may end, whether or not a conditional was opened in it.  Its  *)
(* one thread does nothing else meanwhile, and what rejects in a webhook   *)
(* is handled by nobody.                                                   *)
(* zipfast replaces every hole once, in goroutines that only log errors.   *)
(*                                                                         *)
(* A template, and a value that is text, is a sequence of pieces: texts    *)
(* with a blank in them, holes, and of a conditional the opening with the  *)
(* quote, what parts its branches, and the closing.                        *)
(***************************************************************************)
EXTENDS Naturals, Sequences, FiniteSets, SequencesExt, Relation

CONSTANTS
    Notified,   \* "zipline" and "zipfast"
    Prop,       \* properties a hole may name
    Template,   \* templates of the settings and of the user's page; they do
                \* not name links, which a page's title does not have
    Values,     \* what the properties may stand for, see Kind
    Depth       \* how deep holes lie in conditionals and in values (bound)

(* Of the names of the file, one may be null, and one may not be decodable;*)
(* "absent" is a property of what the template is not about.               *)
Kind == {"text", "number", "null", "undecodable", "unknown", "secret", "absent"}

(* No text refers back to itself through the holes it contains: zipline    *)
(* would fill them for ever.                                               *)
Refers(v) == [p, q \in Prop |->
    v[p].kind = "text" /\ \E w \in Range(v[p].is) : w.is \in {"hole", "open"} /\ w.of = q]

NoticesAssumption ==
    /\ Notified \subseteq {"zipline", "zipfast"} /\ Depth \in Nat
    /\ \A v \in Values :
        /\ \A p \in Prop : v[p].kind \in Kind
        /\ IsIrreflexive(TransitiveClosure(Refers(v), Prop), Prop)

VARIABLES
    host,       \* which server
    template, value,
    answer,     \* to the uploader: "due" or "given"
    discord,    \* idle, off, counting, rendering, sending, delivered or failed
    http,       \* idle, off, sending, delivered or failed
    visit,      \* the page: idle, counting, rendering, shown or failed
    frames,     \* calls of parseString under way, the innermost first
    said,       \* what was rendered, by whom
    alive

vars == <<host, template, value, answer, discord, http, visit, frames, said, alive>>

Text(t) == [is |-> "text", say |-> t]

Init ==
    /\ host \in Notified /\ template \in Template /\ value \in Values
    /\ answer = "due" /\ discord = "idle" /\ http = "idle" /\ visit = "idle"
    /\ frames = <<>> /\ said = [discord |-> <<>>, visit |-> <<>>]
    /\ alive = TRUE

-----------------------------------------------------------------------------
(* What zipline puts in the place of a hole: names are decoded first, so   *)
(* that even a name that is null has a text.  A conditional gives a        *)
(* branch.  A conversion of a text gives one without holes.                *)
Branch(h, v) ==
    IF v[h.of].kind = "text" /\ v[h.of].is # <<>> THEN h.yes ELSE h.no

(* Seeded bug: what is not known stays as it is written, as in zipfast.    *)
SaysVerbatim(h, v) ==
    IF v[h.of].kind \in {"absent", "secret", "unknown"} THEN <<h>>
    ELSE IF v[h.of].kind = "text" /\ h.mod = "none" THEN v[h.of].is
    ELSE <<Text("digits")>>

Says(h, v) ==
    LET k == v[h.of].kind
    IN CASE k = "absent" -> <<Text("{unknown_type}")>>
         [] k \in {"secret", "unknown"} -> <<Text("{unknown_property}")>>
         [] k = "number" /\ h.mod # "none" -> <<Text("{unknown_int_modifier}")>>
         [] h.mod = "exists" -> Branch(h, v)
         [] h.mod = "length" \/ k = "number" -> <<Text("digits")>>
         [] k = "null" -> <<Text("null")>>
         [] OTHER -> v[h.of].is

(* zipfast: a hole it does not know stays as it is; what is not there is   *)
(* empty.                                                                  *)
SaysOnce(h, v) ==
    LET k == v[h.of].kind
    IN CASE k = "unknown" -> <<h>>
         [] h.mod = "length" \/ k = "number" -> <<Text("digits")>>
         [] k = "secret" -> <<Text("***")>>
         [] k \in {"absent", "null"} -> <<>>
         [] k = "undecodable" -> <<Text("raw")>>
         [] OTHER -> v[h.of].is

(* What is no hole stays, and so does what zipline's conditionals are made *)
(* of.                                                                     *)
ReplaceOnce(s, v) ==
    FlattenSeq([i \in DOMAIN s |-> IF s[i].is = "hole" THEN SaysOnce(s[i], v) ELSE <<s[i]>>])

(* A webhook of zipfast has a text of its own, whatever is configured.     *)
DefaultContent == <<Text("New file"), [is |-> "hole", of |-> "link", mod |-> "none"]>>

(* What zipline's regular expression finds at a piece, if anything: a hole;*)
(* a conditional, its branches ended by the first marks that may end them; *)
(* or, of one that is not whole, its property, if the text up to the next  *)
(* brace could be the locale of a date.                                    *)
Coming(s, i, marks) ==
    {j \in i + 1..Len(s) : s[j].is \in marks /\ \A k \in i + 1..j - 1 : s[k].is \notin marks}

Found(s, i) ==
    CASE s[i].is = "hole" -> {[is |-> "hole", of |-> s[i].of, mod |-> s[i].mod, from |-> i, to |-> i]}
      [] s[i].is = "open" /\ \E m \in Coming(s, i, {"middle"}) : Coming(s, m, {"close"}) # {} ->
            {[is |-> "hole", of |-> s[i].of, mod |-> "exists", from |-> i, to |-> b[2],
              yes |-> SubSeq(s, i + 1, b[1] - 1), no |-> SubSeq(s, b[1] + 1, b[2] - 1)] :
                b \in UNION {{m} \X Coming(s, m, {"close"}) : m \in Coming(s, i, {"middle"})}}
      [] s[i].is = "open" ->
            {[is |-> "hole", of |-> s[i].of, mod |-> "none", from |-> i, to |-> b] :
                b \in {c \in Coming(s, i, {"text", "hole", "close"}) : s[c].is # "text"}}
      [] OTHER -> {}

FirstHole(s) ==
    {h \in UNION {Found(s, i) : i \in DOMAIN s} : \A i \in 1..h.from - 1 : Found(s, i) = {}}

-----------------------------------------------------------------------------
(* zipline's process ends with everything in it. *)
Dies ==
    /\ alive' = FALSE /\ frames' = <<>>
    /\ UNCHANGED <<host, template, value, answer, discord, http, visit, said>>

(* The one thread is free. *)
Free == alive /\ frames = <<>>

(* The upload is stored: both webhooks are started, if configured, and     *)
(* nobody waits for them.                                                  *)
Announce(d, h) ==
    /\ Free /\ answer = "due" /\ discord = "idle" /\ http = "idle"
    /\ discord' = IF d THEN "counting" ELSE "off"
    /\ http' = IF h THEN "sending" ELSE "off"
    /\ UNCHANGED <<host, template, value, answer, visit, frames, said, alive>>

Answer ==
    /\ Free /\ answer = "due" /\ discord # "idle"
    /\ answer' = "given"
    /\ UNCHANGED <<host, template, value, discord, http, visit, frames, said, alive>>

Visit ==
    /\ Free /\ visit = "idle"
    /\ visit' = "counting"
    /\ UNCHANGED <<host, template, value, answer, discord, http, frames, said, alive>>

(* zipline counts the files and views a template may name, then renders.   *)
Renders(w) ==
    /\ Free /\ host = "zipline"
    /\ frames' = <<[whose |-> w, out |-> <<>>, rest |-> template]>>
    /\ UNCHANGED <<host, template, value, answer, http, said, alive>>

CountForDiscord ==
    /\ discord = "counting" /\ discord' = "rendering"
    /\ Renders("discord") /\ UNCHANGED visit

CountForVisit ==
    /\ visit = "counting" /\ visit' = "rendering"
    /\ Renders("visit") /\ UNCHANGED discord

CountFails ==
    /\ Free /\ host = "zipline"
    /\ \/ discord = "counting" /\ Dies
       \/ /\ visit = "counting" /\ visit' = "failed"
          /\ UNCHANGED <<host, template, value, answer, discord, http, frames, said, alive>>

-----------------------------------------------------------------------------
Frame == Head(frames)
Passed(f, h) == f.out \o SubSeq(f.rest, 1, h.from - 1)
After(f, h) == SubSeq(f.rest, h.to + 1, Len(f.rest))

(* A conditional about what is a text is rendered by a call of its own.    *)
Calls(h) == h.mod = "exists" /\ value[h.of].kind \in {"text", "null"}

(* Seeded bug: the search goes on behind what was put in.                  *)
FillOnce ==
    /\ frames # <<>>
    /\ \E h \in FirstHole(Frame.rest) :
        /\ ~Calls(h) /\ value[h.of].kind # "undecodable"
        /\ frames' = [frames EXCEPT ![1] = [@ EXCEPT !.out = Passed(Frame, h) \o Says(h, value),
                                                     !.rest = After(Frame, h)]]
    /\ UNCHANGED <<host, template, value, answer, discord, http, visit, said, alive>>

(* One turn of the loop: the hole is replaced, and the next search starts  *)
(* at the beginning of what replaced it.                                   *)
Fill ==
    /\ frames # <<>>
    /\ \E h \in FirstHole(Frame.rest) :
        /\ ~Calls(h) /\ value[h.of].kind # "undecodable"
        /\ frames' = [frames EXCEPT ![1] = [@ EXCEPT !.out = Passed(Frame, h),
                                                     !.rest = Says(h, value) \o After(Frame, h)]]
    /\ UNCHANGED <<host, template, value, answer, discord, http, visit, said, alive>>

(* A conditional: its branch is rendered first. *)
Enter ==
    /\ frames # <<>>
    /\ \E h \in FirstHole(Frame.rest) :
        /\ Calls(h)
        /\ frames' = <<[whose |-> Frame.whose, out |-> <<>>, rest |-> Branch(h, value)]>> \o frames
    /\ UNCHANGED <<host, template, value, answer, discord, http, visit, said, alive>>

(* A branch that renders to nothing is put in as it is written. *)
Leave ==
    /\ Len(frames) > 1 /\ FirstHole(Frame.rest) = {}
    /\ LET r == Frame.out \o Frame.rest
           f == frames[2]
       IN \E h \in FirstHole(f.rest) :
            frames' = <<[f EXCEPT !.out = Passed(f, h),
                                  !.rest = (IF r = <<>> THEN Branch(h, value) ELSE r) \o After(f, h)]>>
                         \o SubSeq(frames, 3, Len(frames))
    /\ UNCHANGED <<host, template, value, answer, discord, http, visit, said, alive>>

Rendered ==
    /\ Len(frames) = 1 /\ FirstHole(Frame.rest) = {}
    /\ frames' = <<>>
    /\ said' = [said EXCEPT ![Frame.whose] = Frame.out \o Frame.rest]
    /\ IF Frame.whose = "discord"
         THEN discord' = "sending" /\ UNCHANGED visit
         ELSE visit' = "shown" /\ UNCHANGED discord
    /\ UNCHANGED <<host, template, value, answer, http, alive>>

(* A name that cannot be decoded is an error: the page's, or nobody's.     *)
Throws ==
    /\ frames # <<>> /\ \E h \in FirstHole(Frame.rest) : value[h.of].kind = "undecodable"
    /\ IF Frame.whose = "discord"
         THEN Dies
         ELSE /\ frames' = <<>> /\ visit' = "failed"
              /\ UNCHANGED <<host, template, value, answer, discord, http, said, alive>>

(* zipfast's calls of ParseString. *)
RenderOnce ==
    /\ alive /\ host = "zipfast"
    /\ \/ /\ discord = "counting" /\ discord' = "sending" /\ UNCHANGED visit
          /\ said' = [said EXCEPT !.discord = ReplaceOnce(DefaultContent, value)]
       \/ /\ visit = "counting" /\ visit' = "shown" /\ UNCHANGED discord
          /\ said' = [said EXCEPT !.visit = ReplaceOnce(template, value)]
    /\ UNCHANGED <<host, template, value, answer, http, frames, alive>>

-----------------------------------------------------------------------------
(* The receiver answers, well or not; or it cannot be reached. *)
Send(how) ==
    /\ Free /\ discord = "sending" /\ discord' = how
    /\ UNCHANGED <<host, template, value, answer, http, visit, frames, said, alive>>

Unreachable ==
    /\ Free /\ discord = "sending"
    /\ IF host = "zipline" THEN Dies
       ELSE discord' = "failed"
            /\ UNCHANGED <<host, template, value, answer, http, visit, frames, said, alive>>

SendHttp(how) ==
    /\ Free /\ http = "sending" /\ http' = how
    /\ UNCHANGED <<host, template, value, answer, discord, visit, frames, said, alive>>

Proceeds ==
    \/ Answer \/ CountForDiscord \/ CountForVisit \/ Fill \/ Enter \/ Leave \/ Rendered \/ Throws
    \/ RenderOnce

Next ==
    \/ \E d, h \in BOOLEAN : Announce(d, h)
    \/ \E how \in {"delivered", "failed"} : Send(how) \/ SendHttp(how)
    \/ Visit \/ CountFails \/ Unreachable \/ Proceeds

(* A thread that has something to do goes on; the receivers may keep their *)
(* answers for ever.                                                       *)
Fairness == WF_vars(Proceeds)

Spec == Init /\ [][Next]_vars /\ Fairness

-----------------------------------------------------------------------------
(* What the author of a template means: a conditional ends its branches    *)
(* with marks of its own, those of what it nests between them aside.       *)
Balanced(s, i, j) == LET count(m) == Cardinality({k \in i + 1..j - 1 : s[k].is = m})
                     IN  count("open") = count("middle") /\ count("middle") = count("close")
Ends(s, i, m) ==
    LET ends == {j \in i + 1..Len(s) : s[j].is = m /\ Balanced(s, i, j)}
    IN  CHOOSE j \in ends : \A k \in ends : j <= k
Middle(s, i) == Ends(s, i, "middle")
Close(s, i) == Ends(s, Middle(s, i), "close")

Opens(s) == {i \in DOMAIN s : s[i].is = "open"}
Within(s, i) == \E o \in Opens(s) : o < i /\ i <= Close(s, o)

Meant(s, i) ==
    IF s[i].is = "hole" THEN s[i]
    ELSE [of |-> s[i].of, mod |-> "exists", yes |-> SubSeq(s, i + 1, Middle(s, i) - 1),
          no |-> SubSeq(s, Middle(s, i) + 1, Close(s, i) - 1)]

(* Every hole is filled, and every hole in what filled it; of conditionals *)
(* there is the branch.                                                    *)
Opened(s, v) == FlattenSeq([i \in DOMAIN s |->
    IF Within(s, i) THEN <<>> ELSE IF s[i].is = "text" THEN <<s[i]>> ELSE Says(Meant(s, i), v)])

Full(s, v) ==
    LET opened[n \in 0..Depth] == IF n = 0 THEN s ELSE Opened(opened[n - 1], v) IN opened[Depth]

(* No conditional lies in a branch of another; or they lie in first        *)
(* branches only, what each there says begins with a text, and all of them *)
(* are met.                                                                *)
Apart(s) == \A i \in Opens(s) : ~Within(s, i)

AllMet(s, v) == \A i \in Opens(s) :
    /\ v[s[i].of].kind = "text" /\ v[s[i].of].is # <<>>
    /\ Within(s, i) => s[i + 1].is = "text"
    /\ \A j \in Opens(s) : ~(Middle(s, i) < j /\ j < Close(s, i))

Legible(s, v) ==
    /\ Apart(s) \/ AllMet(s, v)
    /\ \A p \in Prop : v[p].kind = "text" => Apart(v[p].is)

(* Only texts without holes, numbers, and no conditional. *)
Plain(s, v) == Opens(s) = {} /\ \A i \in DOMAIN s : s[i].is = "hole" =>
    /\ v[s[i].of].kind \in {"text", "number"}
    /\ v[s[i].of].kind = "text" => \A w \in Range(v[s[i].of].is) : w.is = "text"
    /\ v[s[i].of].kind = "number" => s[i].mod = "none"

(* zipline's loop, which knows nothing of nesting, renders what a template *)
(* means, whatever the values hold, if its conditionals lie apart, and     *)
(* even if they lie in first branches, as long as all of them are met; it  *)
(* renders of plain templates what zipfast's single pass does.             *)
Finished(w) == IF w = "visit" THEN visit = "shown" ELSE discord \in {"sending", "delivered", "failed"}

SaidRight == host = "zipline" => \A w \in {"discord", "visit"} : Finished(w) =>
    /\ Legible(template, value) => said[w] = Full(template, value)
    /\ Plain(template, value) => said[w] = ReplaceOnce(template, value)

(* As long as no value refers to itself, every rendering ends, and every   *)
(* upload and every visit is answered in the end, unless the process ends. *)
NoticesEnd ==
    []<>(/\ frames = <<>>
         /\ discord # "idle" => answer = "given" \/ ~alive
         /\ visit # "idle" => visit \in {"shown", "failed"} \/ ~alive)
=============================================================================
