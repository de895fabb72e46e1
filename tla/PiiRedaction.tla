----------------------------- MODULE PiiRedaction -----------------------------
(***************************************************************************)
(* The views that redact_resume makes of a resume                          *)
(* (backend/app/services/pii_redaction.py): the text that is scored, the   *)
(* text that leaves for a provider, the scored text without the name, and  *)
(* the sections.                                                           *)
(*                                                                         *)
(* A resume is a sequence of lines, a line a sequence of tokens, and a     *)
(* token what one of the patterns takes as a whole:                        *)
(*   email, dob          contact details                                   *)
(*   phone               any number of seven digits or more; so LONG_ID_RE,*)
(*                       which looks for nine after it, finds none left    *)
(*   years               two years, "2019 - 2023"; the phone pattern takes *)
(*                       them as well                                      *)
(*   link                host/path, the path names an account; `of' is the *)
(*                       host's first label                                *)
(*   host                what redaction leaves of a link                   *)
(*   address             number, street and street type; `of' is the street*)
(*   heading             the title of a section, if alone on its line      *)
(*   title, plain        a capitalised word, any other word                *)
(*   comma               at the end of a word                              *)
(*   gone                a placeholder                                     *)
(* Words are equal when they are but for their case.  A word is what stands*)
(* between white space and commas, with its marks: "(Bo", "Chen.",         *)
(* "O'Brien".  A pattern's word boundary passes over the marks at its ends;*)
(* that it also finds a part between two marks of a word is left out.      *)
(*                                                                         *)
(* Several slips make the source raise wherever a name or a link is        *)
(* matched; "redaction" in Repaired means they are taken as corrected.     *)
(***************************************************************************)
EXTENDS Naturals, Sequences, SequencesExt

CONSTANTS
  Texts,        \* resumes
  Words,        \* words, also of hosts and streets
  Opened,       \* a word without the marks before its first letter,
  Closed,       \* without those after its last one,
  Bare,         \* and without any but hyphens
  Pairs,        \* words of two letters
  Names,        \* stored names of candidates, sequences of words
  Distinctive,  \* words of three letters or more that are no NAME_STOPWORDS
  Titles,       \* sections: the keys of SECTION_ALIASES
  Repaired      \* slips taken as corrected

Contacts == {"email", "dob", "phone", "years"}
Labels   == Contacts \cup {"name", "address"}   \* what a placeholder stands for

\* The tokens of a resume, and those that redaction makes.
Source == [kind : {"title", "plain", "link", "address"}, of : Words]
          \cup [kind : {"heading"}, of : Titles] \cup [kind : Contacts \cup {"comma"}, of : {""}]
Made   == [kind : {"gone"}, of : Labels] \cup [kind : {"host"}, of : Words]
          \cup [kind : {"link", "host", "address"}, of : {"name"}]

ASSUME RepairedAssumption == Repaired \subseteq {"redaction"}

\* Lines have tokens: blank ones are left out.
ASSUME TextsAssumption ==
  \A t \in Texts : t \in Seq(Seq(Source)) /\ \A i \in DOMAIN t : t[i] # << >>

\* Placeholders and sections are told apart from words; no word of a name is taken to
\* title a section.
ASSUME WordsAssumption ==
  /\ Names \subseteq Seq(Words) /\ Distinctive \subseteq Words /\ Pairs \subseteq Words
  /\ Words \cap (Labels \cup Titles \cup {""}) = {} /\ "other" \notin Titles

\* Marks are taken off at once, in any order.
ASSUME MarksAssumption ==
  /\ {Opened, Closed, Bare} \subseteq [Words -> Words]
  /\ \A w \in Words : /\ Opened[Opened[w]] = Opened[w] /\ Closed[Closed[w]] = Closed[w]
                       /\ Opened[Closed[w]] = Closed[Opened[w]]

VARIABLES
  text, name,   \* the arguments: the source, and known_names (one name or none)
  redactNames,  \* settings.PII_REDACT_NAMES
  outcome,      \* "none", "returned" or "raised"
  views         \* what redact_resume returned

vars == <<text, name, redactNames, outcome, views>>

HeaderLines == 4    \* HEADER_LINE_COUNT

Token(kind, of) == [kind |-> kind, of |-> of]
Gone(what)      == Token("gone", what)
Comma           == Token("comma", "")

\* A text with Change applied to each of its tokens.
Each(Change(_), lines) == [i \in DOMAIN lines |-> [k \in DOMAIN lines[i] |-> Change(lines[i][k])]]

\* The phone pattern takes the white space before a number with it, so a line that
\* begins with one is joined to the line before.
PutLine(done, line) == IF done # << >> /\ line[1].kind = "phone"
                       THEN [done EXCEPT ![Len(done)] = @ \o line]
                       ELSE Append(done, line)
Join(lines) == FoldLeft(PutLine, << >>, lines)

\* Fault: links are cut before scoring too.
StripContactsAndLinks(lines) ==
  LET StripAll(t) == IF t.kind \in Contacts THEN Gone(t.kind)
                     ELSE IF t.kind = "link" THEN Token("host", t.of) ELSE t
  IN  Each(StripAll, Join(lines))

Strip(t) == IF t.kind \in Contacts THEN Gone(t.kind) ELSE t
StripContactDetails(lines) == Each(Strip, Join(lines))

\* The path of a link goes up to the next white space.
PutUrl(done, t) == IF done # << >> /\ Last(done).kind = "host" /\ t \in {Gone("phone"), Comma} THEN done
                   ELSE Append(done, IF t.kind = "link" THEN Token("host", t.of) ELSE t)
RedactUrls(lines) == [i \in DOMAIN lines |-> FoldLeft(PutUrl, << >>, lines[i])]

-----------------------------------------------------------------------------
(* Names. *)

IsWord(t) == t.kind \in {"title", "plain"}

\* What a pattern of len words may find at a word of the text as its n-th word.
Met(w, n, len) ==
  LET open == IF n = 1 THEN Opened[w] ELSE w
  IN  IF n = len THEN Closed[open] ELSE open
Core(w) == Met(w, 1, 1)

\* The variants of one word; the full name, with its marks, is the other variant.
Variants(who) == ({Bare[w] : w \in Range(who)} \cap Distinctive)
                 \cup {w \in Range(who) : Len(who) = 1}

\* The words of who stand in a line from position k on.
NameAt(line, k, who) ==
  \A n \in DOMAIN who : /\ IsWord(line[k + n - 1])
                        /\ Met(line[k + n - 1].of, n, Len(who)) = who[n]

PutWord(who, done, t) ==
  LET now == Append(done, t)
      cut == Len(now) - Len(who)
  IN  IF cut >= 0 /\ NameAt(now, cut + 1, who)
      THEN Append(SubSeq(now, 1, cut), Gone("name")) ELSE now
RedactFullName(lines, who) ==
  LET Put(done, t) == PutWord(who, done, t)
  IN  [i \in DOMAIN lines |-> FoldLeft(Put, << >>, lines[i])]

\* A word of a host or of a street stands between word boundaries too.
RedactWord(t, who) == IF t.of \notin Words \/ Core(t.of) \notin Variants(who) THEN t
                      ELSE IF IsWord(t) THEN Gone("name") ELSE Token(t.kind, "name")
RedactWords(lines, who) ==
  LET Hide(t) == RedactWord(t, who) IN Each(Hide, lines)

\* Longest first: the full name, then its words.
RedactNames(lines, who) ==
  IF who = << >> THEN lines ELSE RedactWords(RedactFullName(lines, who), who)

IsHeading(line) == Len(line) = 1 /\ line[1].kind = "heading"

\* Every word capitalised and no digit or slash.  A placeholder begins with a bracket;
\* that of a phone is glued to the word before it, as a comma is.
LooksLikePersonName(line) ==
  /\ ~IsHeading(line)
  /\ \A k \in DOMAIN line : \/ line[k].kind \in {"title", "heading"}
                            \/ line[k] \in {Gone("phone"), Comma} /\ k > 1

RedactHeaderNameLines(lines) ==
  [i \in DOMAIN lines |->
     IF i <= HeaderLines /\ LooksLikePersonName(lines[i]) THEN <<Gone("name")>> ELSE lines[i]]

-----------------------------------------------------------------------------
(* Addresses and sections. *)

\* The pattern takes the rest of the line up to a comma, and fails on a placeholder in
\* the street.  That it may begin at an earlier number, even of an earlier line, and
\* take what is between is left out.
InAddress(line, k) ==
  \E j \in 1..k : /\ line[j].kind = "address" /\ line[j].of # "name"
                  /\ \A i \in j..k : line[i] # Comma

\* A comma after it is taken with a word of two letters, the state, and else neither.
CommaTaken(line, k) ==
  /\ line[k] = Comma /\ k > 1 /\ InAddress(line, k - 1)
  /\ k < Len(line) /\ IsWord(line[k + 1]) /\ Closed[line[k + 1].of] \in Pairs
Taken(line, k) == InAddress(line, k) \/ CommaTaken(line, k) \/ (k > 1 /\ CommaTaken(line, k - 1))

\* The placeholders of one address stand for one.
RedactAddresses(lines) ==
  [i \in DOMAIN lines |-> [k \in DOMAIN lines[i] |->
     IF Taken(lines[i], k) THEN Gone("address") ELSE lines[i][k]]]

\* The tokens of each section; a section without any is not returned.
PutInSection(at, line) == IF IsHeading(line) THEN [at EXCEPT !.current = line[1].of]
                          ELSE [at EXCEPT !.found[at.current] = @ \o line]
NoSections == [current |-> "other", found |-> [s \in Titles \cup {"other"} |-> << >>]]
ExtractSections(lines) == FoldLeft(PutInSection, NoSections, lines).found

-----------------------------------------------------------------------------

Scoring(lines) == StripContactDetails(lines)

\* Fault: names are redacted before the links are cut; a host with a placeholder in
\* it is no host to the pattern.
LlmNamesFirst(lines, who, hide) ==
  LET Cut(t)   == IF t.kind = "link" /\ t.of # "name" THEN Token("host", t.of) ELSE t
      stripped == StripContactDetails(lines)
      unnamed  == IF hide THEN RedactHeaderNameLines(RedactNames(stripped, who)) ELSE stripped
  IN  RedactAddresses(Each(Cut, unnamed))

Llm(lines, who, hide) ==
  LET cut     == RedactUrls(StripContactDetails(lines))
      unnamed == IF hide THEN RedactHeaderNameLines(RedactNames(cut, who)) ELSE cut
  IN  RedactAddresses(unnamed)

\* The named groups of `replace' do not exist, nor does the argument `token'.
Raises ==
  /\ "redaction" \notin Repaired
  /\ name # << >> \/ \E i \in DOMAIN text : \E k \in DOMAIN text[i] : text[i][k].kind = "link"

Init ==
  /\ text \in Texts /\ name \in Names \cup {<< >>} /\ redactNames \in BOOLEAN
  /\ outcome = "none" /\ views = << >>

RedactResume ==
  /\ outcome = "none"
  /\ outcome' = IF Raises THEN "raised" ELSE "returned"
  /\ views' = IF Raises THEN << >>
              ELSE [scoring  |-> Scoring(text),
                    llm      |-> Llm(text, name, redactNames),
                    unnamed  |-> RedactNames(Scoring(text), name),
                    sections |-> ExtractSections(Scoring(text))]
  /\ UNCHANGED <<text, name, redactNames>>

Spec == Init /\ [][RedactResume]_vars

-----------------------------------------------------------------------------
(* Properties. *)

Returned == outcome = "returned"
Tokens(lines) == UNION {Range(lines[i]) : i \in DOMAIN lines}

\* Whatever the lines of a resume and their order, the view that leaves for a provider
\* has no contact detail, no account behind a link, no address, and with
\* PII_REDACT_NAMES neither the stored name in a line nor a distinctive word of it, be
\* it in a host.  A word of the name with a mark inside, O'Brien, gets through outside
\* the full name: the source searches for it without the mark (pii_redaction.py:244,
\* 261).  A name that begins or ends with a mark is not found as a whole either, but its
\* distinctive words are.  The one address that gets through is in a street of the
\* candidate's name, because names go before addresses (pii_redaction.py:336-351).
NothingIdentifies ==
  Returned =>
    /\ \A t \in Tokens(views.llm) :
         /\ t.kind \notin Contacts \cup {"link"}
         /\ t.kind = "address" => redactNames /\ t.of = "name"
         /\ redactNames /\ t.of \in Words =>
              \A w \in Range(name) :
                Core(w) \in Distinctive /\ Bare[w] = Core(w) => Core(t.of) # Core(w)
    /\ redactNames /\ name # << >> =>
         \A i \in DOMAIN views.llm :
           \A k \in 1..(Len(views.llm[i]) + 1 - Len(name)) : ~NameAt(views.llm[i], k, name)

\* The tokens of a line, and of all lines of a text, that are in a set.
Only(kept, line) ==
  LET Put(done, t) == IF t \in kept THEN Append(done, t) ELSE done
  IN  FoldLeft(Put, << >>, line)
OnlyOf(kept, lines) ==
  LET Put(done, line) == done \o Only(kept, line)
  IN  FoldLeft(Put, << >>, lines)

Evidence == {t \in Source : t.kind \notin Contacts}

\* The tokens that are no word of a name, with or without its marks.
Forms(w)   == {w, Opened[w], Closed[w], Core(w)}
NotOf(who) ==
  {t \in Source \cup Made :
     /\ t # Gone("name") /\ (t.kind \in {"link", "host", "address"} => t.of # "name")
     /\ t.of \in Words => Forms(t.of) \cap (Range(who) \cup {Bare[w] : w \in Range(who)}) = {}}

\* Nothing that speaks for a candidate is lost to the scorer: links keep their path,
\* every word its order, and every section its words, unless a phone number stands
\* right below a heading; and the counterfactual differs from what is scored by words
\* of the name alone (pii_redaction.py:13-21, 353, 401-411).
EvidenceSurvives ==
  Returned =>
    LET hidden(i) == IsHeading(text[i - 1]) /\ text[i][1].kind = "phone"
        sources   == ExtractSections(text)
    IN  /\ OnlyOf(Evidence, views.scoring) = OnlyOf(Evidence, text)
        /\ OnlyOf(NotOf(name), views.unnamed) = OnlyOf(NotOf(name), views.scoring)
        /\ (\A i \in 2..Len(text) : ~hidden(i)) =>
             \A s \in DOMAIN sources :
               Only(Evidence, views.sections[s]) = Only(Evidence, sources[s])
===============================================================================
