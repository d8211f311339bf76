------------------------------ MODULE ShellProofs ------------------------------
(* Shell for any number of tabs, any storage and any number of answers.         *)
(*                                                                              *)
(* None of the three properties is inductive.  A document only sends what its   *)
(* visitor allowed because a document that has not been hydrated carries no     *)
(* script, because only a build with an ID loads one, and because a storage     *)
(* that is full holds no answer while the question stands: a no that could not  *)
(* be written would otherwise be answered by the yes before it.  The toggle     *)
(* names the theme because both were read from one storage, which no other tab  *)
(* has written since.                                                           *)
EXTENDS Shell, TLAPS

Stored == [consent : {"nothing", "ja", "nee"}, theme : Themes \cup {"nothing"}]

(* What one document keeps, whatever storage holds.                             *)
Tidy(d) ==
    /\ d.configs = IF d.script THEN 1 ELSE 0
    /\ d.script => measured
    /\ d.banner = "none" => ~d.script
    /\ d.at # "live" => d.banner = "none"

Honest(d) == Sending(d) => d.said = "granted"

(* What it has in common with storage.                                          *)
Unanswered(d) == storage = "full" /\ d.banner = "unknown" => stored.consent = "nothing"

Themed(d) ==
    storage = "works" /\ d.at \in {"built", "live"} /\ d.alone =>
        /\ d.attribute = readStoredChoice(stored)
        /\ d.at = "live" => d.toggle = d.attribute

Types ==
    /\ measured \in BOOLEAN /\ storage \in Access
    /\ stored \in Stored
    /\ tab \in [Tabs -> Document]
    /\ writes \in 0 .. MaxWrites

ShellInv ==
    /\ Types
    /\ \A t \in Tabs : /\ Tidy(tab[t]) /\ Honest(tab[t])
                       /\ Unanswered(tab[t]) /\ Themed(tab[t])
                       /\ tab[t].at = "live" => storage # "denied"

-----------------------------------------------------------------------------
(* The helpers on one document.                                                 *)

(* Which fields a reading of storage leaves alone.                              *)
Kept(d, e) ==
    /\ e.at = d.at /\ e.toggle = d.toggle
    /\ e.attribute = d.attribute /\ e.alone = d.alone

(* Loading keeps a document tidy and writes nothing but the three fields of the *)
(* measurement: analytics.ts looks for its own script first.                    *)
LEMMA LoadIsTidy ==
    ASSUME measured \in BOOLEAN, NEW d \in Document, Tidy(d), d.banner # "none"
    PROVE  /\ loadAnalytics(d) \in Document
           /\ Tidy(loadAnalytics(d)) /\ Kept(d, loadAnalytics(d))
           /\ loadAnalytics(d).said = d.said /\ loadAnalytics(d).banner = d.banner
           /\ loadAnalytics(d).reset = d.reset
<1> MaxWrites \in Nat
  BY ShellAssumption
<1>1. CASE ~measured \/ d.script
  BY <1>1 DEF loadAnalytics, Kept
<1>2. CASE measured /\ ~d.script
  <2> DEFINE e == [d EXCEPT !.script = TRUE, !.off = FALSE, !.configs = @ + 1]
  <2>1. loadAnalytics(d) = e
    BY <1>2 DEF loadAnalytics
  <2>2. d.configs = 0
    BY <1>2 DEF Tidy
  <2>3. d.configs + 1 = 1 /\ 1 \in 0 .. MaxWrites + 1
    BY <2>2
  <2>4. e = [d EXCEPT !.script = TRUE, !.off = FALSE, !.configs = 1]
    BY <2>3
  <2>5. e \in Document
    BY <2>3, <2>4 DEF Document
  <2>6. /\ e.script = TRUE /\ e.off = FALSE /\ e.configs = 1 /\ e.at = d.at
        /\ e.banner = d.banner /\ e.reset = d.reset /\ e.toggle = d.toggle
        /\ e.attribute = d.attribute /\ e.said = d.said /\ e.alone = d.alone
    BY <2>4 DEF Document
  <2> HIDE DEF e
  <2>7. Tidy(e)
    BY <2>6, <1>2 DEF Tidy
  <2> QED
    BY <2>1, <2>6, <2>5, <2>7 DEF Kept
<1> QED
  BY <1>1, <1>2

(* The answer that is read, and only a yes that is new loads anything.          *)
LEMMA ConsentIsOne ==
    ASSUME NEW s \in Stored
    PROVE  readConsent(s) \in Consents
BY DEF readConsent, Consents

(* A reading of storage keeps a document tidy and honest, leaves its theme      *)
(* alone, and where the answer is no yes, its measurement too.                  *)
LEMMA ReadIsHonest ==
    ASSUME measured \in BOOLEAN, NEW d \in Document, NEW s \in Stored,
           Tidy(d), Honest(d), d.at = "live"
    PROVE  /\ BannerReads(d, s) \in Document
           /\ Tidy(BannerReads(d, s)) /\ Honest(BannerReads(d, s))
           /\ Kept(d, BannerReads(d, s))
           /\ BannerReads(d, s).banner = readConsent(s)
           /\ BannerReads(d, s).reset = d.reset
           /\ readConsent(s) # "granted" =>
                  BannerReads(d, s).script = d.script /\ BannerReads(d, s).off = d.off
<1> DEFINE c == readConsent(s)
           e == [d EXCEPT !.banner = c]
           f == [e EXCEPT !.said = c]
<1>1. c \in Consents /\ c # "none"
  BY ConsentIsOne DEF Consents
<1>2. /\ e \in Document
      /\ e.banner = c /\ e.at = d.at /\ e.reset = d.reset /\ e.toggle = d.toggle
      /\ e.attribute = d.attribute /\ e.script = d.script /\ e.off = d.off
      /\ e.configs = d.configs /\ e.said = d.said /\ e.alone = d.alone
  BY <1>1 DEF Document
<1>3. /\ f \in Document
      /\ f.banner = c /\ f.at = d.at /\ f.reset = d.reset /\ f.toggle = d.toggle
      /\ f.attribute = d.attribute /\ f.script = d.script /\ f.off = d.off
      /\ f.configs = d.configs /\ f.said = c /\ f.alone = d.alone
  BY <1>1, <1>2 DEF Document
<1>4. BannerReads(d, s) = IF c = "granted" /\ d.banner # "granted"
                          THEN loadAnalytics(IF c = "unknown" THEN e ELSE f)
                          ELSE IF d.banner = "none" THEN IF c = "unknown" THEN e ELSE f ELSE e
  BY DEF BannerReads, Told
<1> HIDE DEF c, e, f
<1>5. Tidy(e) /\ Tidy(f)
  BY <1>1, <1>2, <1>3 DEF Tidy
<1>6. Honest(e)
  BY <1>2 DEF Honest, Sending
<1>7. CASE c = "granted" /\ d.banner # "granted"
  <2> DEFINE g == loadAnalytics(f)
  <2>1. BannerReads(d, s) = g
    BY <1>4, <1>7
  <2>2. /\ g \in Document /\ Tidy(g) /\ Kept(f, g)
        /\ g.said = f.said /\ g.banner = f.banner /\ g.reset = f.reset
    BY <1>1, <1>3, <1>5, LoadIsTidy
  <2> HIDE DEF g
  <2>3. Honest(g)
    BY <2>2, <1>3, <1>7 DEF Honest
  <2>4. Kept(d, g)
    BY <2>2, <1>3 DEF Kept
  <2> QED
    BY <2>1, <2>2, <2>3, <2>4, <1>3, <1>7 DEF c
<1>8. CASE ~(c = "granted" /\ d.banner # "granted") /\ d.banner = "none" /\ c # "unknown"
  <2>1. BannerReads(d, s) = f
    BY <1>4, <1>8
  <2>2. Honest(f)
    BY <1>3, <1>8 DEF Honest, Sending, Tidy
  <2> QED
    BY <2>1, <2>2, <1>3, <1>5 DEF Kept, c
<1>9. CASE ~(c = "granted" /\ d.banner # "granted") /\ ~(d.banner = "none" /\ c # "unknown")
  <2>1. BannerReads(d, s) = e
    BY <1>4, <1>9
  <2> QED
    BY <2>1, <1>2, <1>5, <1>6 DEF Kept, c
<1> QED
  BY <1>7, <1>8, <1>9

(* The reset on the privacy page is told of an answer, and nothing else of the  *)
(* document changes with it.                                                    *)
LEMMA ResetIsTold ==
    ASSUME measured \in BOOLEAN, NEW d \in Document, NEW s \in Stored,
           Tidy(d), Honest(d)
    PROVE  /\ ResetReads(d, s) \in Document
           /\ Tidy(ResetReads(d, s)) /\ Honest(ResetReads(d, s)) /\ Kept(d, ResetReads(d, s))
           /\ ResetReads(d, s).banner = d.banner
           /\ ResetReads(d, s).script = d.script /\ ResetReads(d, s).off = d.off
<1> DEFINE e == [d EXCEPT !.reset = readConsent(s)]
<1>1. readConsent(s) \in Consents
  BY ConsentIsOne
<1>2. /\ e \in Document
      /\ e.banner = d.banner /\ e.at = d.at /\ e.toggle = d.toggle
      /\ e.attribute = d.attribute /\ e.script = d.script /\ e.off = d.off
      /\ e.configs = d.configs /\ e.said = d.said /\ e.alone = d.alone
  BY <1>1 DEF Document
<1>3. ResetReads(d, s) = IF d.reset = "none" THEN d ELSE e
  BY DEF ResetReads
<1> HIDE DEF e
<1>4. Tidy(e) /\ Honest(e) /\ Kept(d, e)
  BY <1>2 DEF Tidy, Honest, Sending, Kept
<1>5. Kept(d, d)
  BY DEF Kept
<1> QED
  BY <1>2, <1>3, <1>4, <1>5

-----------------------------------------------------------------------------
(* What a write leaves in storage: a full one can only forget.                  *)
LEMMA WrittenConsent ==
    ASSUME Types, NEW c \in Consents
    PROVE  /\ writeConsent(c) \in Stored /\ writeConsent(c).theme = stored.theme
           /\ c = "unknown" => writeConsent(c).consent = "nothing"
           /\ c # "unknown" /\ storage = "full" => writeConsent(c) = stored
           /\ c # "unknown" /\ storage # "full" => readConsent(writeConsent(c)) = c
<1>1. stored \in Stored
  BY DEF Types
<1>2. CASE c = "unknown"
  BY <1>1, <1>2 DEF writeConsent, Stored
<1>3. CASE c # "unknown" /\ storage = "full"
  BY <1>1, <1>3 DEF writeConsent
<1>4. CASE c # "unknown" /\ storage # "full"
  <2> DEFINE s == [stored EXCEPT !.consent = IF c = "granted" THEN "ja" ELSE "nee"]
  <2>1. writeConsent(c) = s
    BY <1>4 DEF writeConsent
  <2>2. s \in Stored /\ s.theme = stored.theme /\ s.consent = IF c = "granted" THEN "ja" ELSE "nee"
    BY <1>1 DEF Stored
  <2> HIDE DEF s
  <2>3. readConsent(s) = c
    BY <2>2, <1>4 DEF readConsent, Consents
  <2> QED
    BY <2>1, <2>2, <2>3, <1>4
<1> QED
  BY <1>2, <1>3, <1>4

(* One document changes, the themes do not: what is left to show of a step.     *)
LEMMA OneDocument ==
    ASSUME ShellInv, NEW t \in Tabs, NEW d \in Document, Tidy(d), Honest(d),
           tab' = [tab EXCEPT ![t] = d], UNCHANGED <<measured, storage>>,
           stored' \in Stored, stored'.theme = stored.theme,
           storage = "full" /\ stored.consent = "nothing" => stored'.consent = "nothing",
           storage = "full" /\ d.banner = "unknown" => stored'.consent = "nothing",
           Themed(d), d.at = "live" => storage # "denied",
           writes' \in 0 .. MaxWrites
    PROVE  ShellInv'
<1>1. Types'
  BY DEF ShellInv, Types
<1>2. readStoredChoice(stored)' = readStoredChoice(stored)
  BY DEF readStoredChoice
<1>3. ASSUME NEW u \in Tabs
      PROVE  (/\ Tidy(tab[u]) /\ Honest(tab[u]) /\ Unanswered(tab[u]) /\ Themed(tab[u])
              /\ tab[u].at = "live" => storage # "denied")'
  <2> DEFINE e == tab'[u]
  <2>1. \/ e = d
        \/ /\ e = tab[u] /\ Tidy(e) /\ Honest(e) /\ Unanswered(e) /\ Themed(e)
           /\ e.at = "live" => storage # "denied"
    BY DEF ShellInv, Types
  <2>2. e = tab[u]'
    OBVIOUS
  <2> HIDE DEF e
  <2>3. Tidy(e) /\ Honest(e) /\ Themed(e) /\ (e.at = "live" => storage # "denied")
    BY <2>1
  <2>4. storage = "full" /\ e.banner = "unknown" => stored'.consent = "nothing"
    BY <2>1 DEF Unanswered
  <2>5. Tidy(tab[u])' /\ Honest(tab[u])' /\ Unanswered(tab[u])'
    BY <2>2, <2>3, <2>4 DEF Tidy, Honest, Sending, Unanswered
  <2>6. Themed(tab[u])'
    BY <2>2, <2>3, <1>2 DEF Themed
  <2> QED
    BY <2>2, <2>3, <2>5, <2>6
<1> QED
  BY <1>1, <1>3 DEF ShellInv

(* An answer: the switch is thrown for a no before anything else reads, and     *)
(* what is read afterwards is no yes.                                           *)
LEMMA AnswerIsKept ==
    ASSUME ShellInv, NEW t \in Tabs, NEW c \in Consents, tab[t].at = "live",
           setConsent(t, c), c # "unknown" => tab[t].banner = "unknown"
    PROVE  ShellInv'
<1> DEFINE o == tab[t]
           d == IF c = "denied" THEN disableAnalytics(o) ELSE o
           s == writeConsent(c)
           b == BannerReads(d, s)
           r == ResetReads(b, s)
           e == Told(r, c)
<1>1. /\ stored' = s /\ tab' = [tab EXCEPT ![t] = e] /\ UNCHANGED <<measured, storage>>
      /\ writes' \in 0 .. MaxWrites
  BY ShellAssumption DEF setConsent, Become, ShellInv, Types
<1>2. /\ measured \in BOOLEAN /\ Types
      /\ o \in Document /\ Tidy(o) /\ Honest(o) /\ Unanswered(o) /\ Themed(o)
      /\ o.at = "live" /\ storage # "denied" /\ (c # "unknown" => o.banner = "unknown")
  BY DEF ShellInv, Types
<1>3. /\ d \in Document /\ Tidy(d) /\ Honest(d) /\ Kept(o, d) /\ d.at = "live"
      /\ c = "denied" /\ measured => d.off
      /\ d.script = o.script
  <2> HIDE DEF o
  <2>1. CASE c = "denied" /\ measured
    <3> DEFINE f == [o EXCEPT !.off = TRUE]
    <3>1. d = f
      BY <2>1 DEF disableAnalytics
    <3>2. /\ f \in Document /\ f.off = TRUE /\ f.script = o.script /\ f.at = o.at
          /\ f.banner = o.banner /\ f.toggle = o.toggle /\ f.attribute = o.attribute
          /\ f.configs = o.configs /\ f.alone = o.alone
      BY <1>2 DEF Document
    <3> HIDE DEF f
    <3>3. Tidy(f) /\ Honest(f) /\ Kept(o, f)
      BY <3>2, <1>2 DEF Tidy, Honest, Sending, Kept
    <3> QED
      BY <3>1, <3>2, <3>3, <1>2
  <2>2. CASE ~(c = "denied" /\ measured)
    <3>1. d = o
      BY <2>2 DEF disableAnalytics
    <3> QED
      BY <3>1, <2>2, <1>2 DEF Kept
  <2> QED
    BY <2>1, <2>2
<1>4. /\ s \in Stored /\ s.theme = stored.theme
      /\ c = "unknown" => s.consent = "nothing"
      /\ c # "unknown" /\ storage = "full" => s = stored
      /\ c # "unknown" /\ storage # "full" => readConsent(s) = c
  BY <1>2, WrittenConsent
<1> HIDE DEF s, d, o
<1>5. /\ b \in Document /\ Tidy(b) /\ Honest(b) /\ Kept(d, b) /\ b.banner = readConsent(s)
      /\ readConsent(s) # "granted" => b.script = d.script /\ b.off = d.off
  BY <1>2, <1>3, <1>4, ReadIsHonest
<1> HIDE DEF b
<1>6. /\ r \in Document /\ Tidy(r) /\ Honest(r) /\ Kept(b, r) /\ r.banner = b.banner
      /\ r.script = b.script /\ r.off = b.off
  BY <1>2, <1>4, <1>5, ResetIsTold
<1> HIDE DEF r
<1>7. c = "denied" => readConsent(s) # "granted"
  BY <1>2, <1>4 DEF Unanswered, readConsent
<1>8. c = "denied" => ~Sending(r)
  BY <1>2, <1>3, <1>5, <1>6, <1>7 DEF Sending, Tidy
<1>9. e \in Document /\ Tidy(e) /\ Honest(e) /\ Kept(r, e) /\ e.banner = r.banner
  <2>1. CASE c = "unknown"
    BY <2>1, <1>6 DEF Told, Kept
  <2>2. CASE c # "unknown"
    <3> DEFINE f == [r EXCEPT !.said = c]
    <3>1. e = f
      BY <2>2 DEF Told
    <3>2. /\ f \in Document /\ f.said = c /\ f.off = r.off /\ f.script = r.script
          /\ f.at = r.at /\ f.banner = r.banner /\ f.toggle = r.toggle
          /\ f.attribute = r.attribute /\ f.configs = r.configs /\ f.alone = r.alone
      BY <1>6 DEF Document
    <3> HIDE DEF f
    <3>3. Tidy(f) /\ Kept(r, f)
      BY <3>2, <1>6 DEF Tidy, Kept
    <3>4. Honest(f)
      BY <3>2, <1>8, <2>2 DEF Honest, Sending, Consents
    <3> QED
      BY <3>1, <3>2, <3>3, <3>4
  <2> QED
    BY <2>1, <2>2
<1> HIDE DEF e
<1>10. Kept(o, e) /\ e.banner = readConsent(s)
  BY <1>3, <1>5, <1>6, <1>9 DEF Kept
<1>11. Themed(e) /\ (e.at = "live" => storage # "denied")
  BY <1>2, <1>10 DEF Themed, Kept
<1>12. storage = "full" /\ e.banner = "unknown" => s.consent = "nothing"
  BY <1>4, <1>10 DEF readConsent, Stored
<1>13. storage = "full" /\ stored.consent = "nothing" => s.consent = "nothing"
  BY <1>4
<1> QED
  BY <1>1, <1>4, <1>9, <1>11, <1>12, <1>13, OneDocument

(* A pick: whatever the other tabs show is no longer theirs alone, and the one  *)
(* that picked shows what a storage that works now holds.                       *)
LEMMA PickIsShown ==
    ASSUME ShellInv, NEW t \in Tabs, PickTheme(t)
    PROVE  ShellInv'
<1>1. PICK c \in Themes \cup {"system"} : setThemeChoice(t, c)
  BY DEF PickTheme
<1>2. /\ stored' = writeStoredChoice(c) /\ UNCHANGED <<measured, storage>>
      /\ writes' \in 0 .. MaxWrites /\ tab[t].at = "live"
  BY <1>1, ShellAssumption DEF PickTheme, setThemeChoice, ShellInv, Types
<1>3. stored \in Stored /\ Types
  BY DEF ShellInv, Types
<1>4. /\ stored' \in Stored /\ stored'.consent = stored.consent
      /\ storage = "works" => readStoredChoice(stored') = c
  <2>1. CASE c = "system"
    BY <1>2, <1>3, <2>1 DEF writeStoredChoice, readStoredChoice, Stored, Themes
  <2>2. CASE c # "system" /\ storage = "full"
    BY <1>2, <1>3, <2>2 DEF writeStoredChoice
  <2>3. CASE c # "system" /\ storage # "full"
    BY <1>2, <1>3, <2>3 DEF writeStoredChoice, readStoredChoice, Stored
  <2> QED
    BY <2>1, <2>2, <2>3
<1>5. ASSUME NEW u \in Tabs
      PROVE  /\ tab'[u] \in Document
             /\ (/\ Tidy(tab[u]) /\ Honest(tab[u]) /\ Unanswered(tab[u]) /\ Themed(tab[u])
                 /\ tab[u].at = "live" => storage # "denied")'
  <2> DEFINE o == tab[u]
             e == tab'[u]
  <2>1. /\ o \in Document /\ Tidy(o) /\ Honest(o) /\ Unanswered(o)
        /\ o.at = "live" => storage # "denied"
    BY DEF ShellInv, Types
  <2>2. /\ e \in Document /\ e.at = o.at /\ e.banner = o.banner /\ e.script = o.script
        /\ e.off = o.off /\ e.configs = o.configs /\ e.said = o.said
        /\ \/ ~e.alone
           \/ e.attribute = c /\ e.toggle = readStoredChoice(stored')
    <3>1. CASE u = t
      <4> DEFINE n == [tab[t] EXCEPT !.attribute = c, !.alone = TRUE,
                                     !.toggle = readStoredChoice(stored')]
      <4>1. e = n
        BY <1>1, <3>1 DEF setThemeChoice
      <4>2. readStoredChoice(stored') \in Themes \cup {"system"}
        BY DEF readStoredChoice
      <4>3. tab[t] \in Document
        BY <2>1, <3>1
      <4>4. /\ n \in Document /\ n.at = tab[t].at /\ n.banner = tab[t].banner
            /\ n.script = tab[t].script /\ n.off = tab[t].off /\ n.configs = tab[t].configs
            /\ n.said = tab[t].said /\ n.attribute = c /\ n.toggle = readStoredChoice(stored')
        BY <4>2, <4>3 DEF Document
      <4> HIDE DEF n, e
      <4> QED
        BY <4>1, <4>4, <3>1
    <3>2. CASE u # t
      <4> DEFINE n == [tab[u] EXCEPT !.alone = FALSE]
      <4>1. e = n
        BY <1>1, <3>2 DEF setThemeChoice
      <4>2. /\ n \in Document /\ n.at = o.at /\ n.banner = o.banner /\ n.script = o.script
            /\ n.off = o.off /\ n.configs = o.configs /\ n.said = o.said /\ ~n.alone
        BY <2>1 DEF Document
      <4> HIDE DEF n, e, o
      <4> QED
        BY <4>1, <4>2
    <3> QED
      BY <3>1, <3>2
  <2>3. e = tab[u]'
    OBVIOUS
  <2> HIDE DEF o, e
  <2>4. /\ Tidy(e) /\ Honest(e)
        /\ storage = "full" /\ e.banner = "unknown" => stored'.consent = "nothing"
        /\ e.at = "live" => storage # "denied"
        /\ storage = "works" /\ e.alone =>
             e.attribute = readStoredChoice(stored') /\ e.toggle = e.attribute
    BY <2>1, <2>2, <1>4 DEF Tidy, Honest, Sending, Unanswered
  <2>5. Tidy(tab[u])' /\ Honest(tab[u])' /\ Unanswered(tab[u])'
    BY <2>3, <2>4, <1>2 DEF Tidy, Honest, Sending, Unanswered
  <2>6. readStoredChoice(stored)' = readStoredChoice(stored')
    BY DEF readStoredChoice
  <2>7. Themed(tab[u])' /\ (tab[u].at = "live" => storage # "denied")'
    BY <2>3, <2>4, <2>6, <1>2 DEF Themed
  <2> QED
    BY <2>2, <2>3, <2>5, <2>7 DEF e
<1>6. tab' \in [Tabs -> Document]
  <2>1. tab' = [u \in Tabs |-> tab'[u]]
    BY <1>1 DEF setThemeChoice
  <2> QED
    BY <2>1, <1>5
<1> QED
  BY <1>2, <1>3, <1>4, <1>5, <1>6 DEF ShellInv, Types

-----------------------------------------------------------------------------
(* A tab without a document.                                                    *)
LEMMA ClosedIsEmpty ==
    /\ Closed \in Document
    /\ Closed.at = "closed" /\ Closed.banner = "none"
    /\ ~Closed.script /\ Closed.configs = 0
BY ShellAssumption DEF Closed, Document, Consents, Themes

(* Every tab starts closed, with nothing loaded and nothing asked.              *)
LEMMA ShellStarts ==
    Init => ShellInv
<1> SUFFICES ASSUME Init PROVE ShellInv
  OBVIOUS
<1>2. Types
  BY ClosedIsEmpty, ShellAssumption DEF Init, Types, Stored
<1>3. Tidy(Closed) /\ Honest(Closed) /\ Unanswered(Closed) /\ Themed(Closed)
  BY ClosedIsEmpty DEF Tidy, Honest, Sending, Unanswered, Themed
<1>4. \A t \in Tabs : tab[t] = Closed
  BY DEF Init
<1> QED
  BY <1>2, <1>3, <1>4, ClosedIsEmpty DEF ShellInv

(* Every step of every tab keeps it.                                            *)
LEMMA ShellSteps ==
    ShellInv /\ [Next]_vars => ShellInv'
<1> SUFFICES ASSUME ShellInv, [Next]_vars PROVE ShellInv'
  OBVIOUS
<1>1. CASE UNCHANGED vars
  BY <1>1 DEF ShellInv, Types, Tidy, Honest, Sending, Unanswered, Themed, readStoredChoice, vars
<1>2. ASSUME NEW t \in Tabs,
             \/ Open(t)   \/ Hydrate(t)     \/ Render(t)       \/ Close(t)
             \/ Answer(t) \/ OpenPrivacy(t) \/ LeavePrivacy(t) \/ ConsentReset(t)
             \/ PickTheme(t)
      PROVE  ShellInv'
  <2> DEFINE o == tab[t]
  <2>1. /\ measured \in BOOLEAN /\ stored \in Stored /\ writes \in 0 .. MaxWrites
        /\ o \in Document /\ Tidy(o) /\ Honest(o) /\ Unanswered(o) /\ Themed(o)
        /\ o.at = "live" => storage # "denied"
    BY DEF ShellInv, Types
  <2>2. /\ readStoredChoice(stored) \in Themes \cup {"system"}
        /\ readConsent(stored) \in Consents
        /\ readConsent(stored) = "unknown" => stored.consent = "nothing"
    BY <2>1, ConsentIsOne DEF readStoredChoice, readConsent, Stored
  <2>3. CASE Open(t)
    <3> DEFINE a == IF storage = "denied" THEN "system" ELSE readStoredChoice(stored)
               e == [Closed EXCEPT !.at = "built", !.attribute = a]
    <3>1. tab' = [tab EXCEPT ![t] = e] /\ UNCHANGED <<measured, storage, stored, writes>>
      BY <2>3 DEF Open, Become
    <3>2. a \in Themes \cup {"system"} /\ (storage = "works" => a = readStoredChoice(stored))
      BY <2>2
    <3> HIDE DEF a
    <3>3. /\ e \in Document /\ e.at = "built" /\ e.attribute = a /\ e.banner = "none"
          /\ ~e.script /\ e.configs = 0
      BY <3>2, ClosedIsEmpty DEF Document
    <3> HIDE DEF e
    <3>4. Tidy(e) /\ Honest(e) /\ Themed(e)
      BY <3>2, <3>3 DEF Tidy, Honest, Sending, Themed
    <3> QED
      BY <2>1, <3>1, <3>3, <3>4, OneDocument
  <2>4. CASE Hydrate(t) /\ storage = "denied"
    <3> DEFINE e == [o EXCEPT !.at = "crashed"]
    <3>1. tab' = [tab EXCEPT ![t] = e] /\ UNCHANGED <<measured, storage, stored, writes>>
      BY <2>4 DEF Hydrate, Become
    <3>2. o.at = "built"
      BY <2>4 DEF Hydrate
    <3> HIDE DEF o
    <3>3. /\ e \in Document /\ e.at = "crashed" /\ e.banner = o.banner
          /\ e.script = o.script /\ e.configs = o.configs
      BY <2>1 DEF Document
    <3> HIDE DEF e
    <3>4. Tidy(e) /\ Honest(e) /\ Themed(e)
      BY <2>1, <3>2, <3>3, <2>4 DEF Tidy, Honest, Sending, Themed
    <3> QED
      BY <2>1, <2>4, <3>1, <3>3, <3>4, OneDocument
  <2>5. CASE Hydrate(t) /\ storage # "denied"
    <3> DEFINE f == [o EXCEPT !.at = "live", !.toggle = readStoredChoice(stored)]
               e == BannerReads(f, stored)
    <3>1. tab' = [tab EXCEPT ![t] = e] /\ UNCHANGED <<measured, storage, stored, writes>>
      BY <2>5 DEF Hydrate, Become
    <3>2. o.at = "built"
      BY <2>5 DEF Hydrate
    <3> HIDE DEF o
    <3>3. /\ f \in Document /\ f.at = "live" /\ f.toggle = readStoredChoice(stored)
          /\ f.banner = o.banner /\ f.script = o.script /\ f.configs = o.configs
          /\ f.off = o.off /\ f.said = o.said /\ f.attribute = o.attribute /\ f.alone = o.alone
      BY <2>1, <2>2 DEF Document
    <3> HIDE DEF f
    <3>4. Tidy(f) /\ Honest(f)
      BY <2>1, <3>2, <3>3 DEF Tidy, Honest, Sending
    <3>5. /\ e \in Document /\ Tidy(e) /\ Honest(e) /\ Kept(f, e)
          /\ e.banner = readConsent(stored)
      BY <2>1, <3>3, <3>4, ReadIsHonest
    <3> HIDE DEF e
    <3>6. Themed(e)
      BY <2>1, <3>2, <3>3, <3>5 DEF Themed, Kept
    <3> QED
      BY <2>1, <2>2, <2>5, <3>1, <3>5, <3>6, OneDocument
  <2>6. CASE Render(t)
    <3> DEFINE f == [o EXCEPT !.toggle = readStoredChoice(stored)]
               b == BannerReads(f, stored)
               e == ResetReads(b, stored)
    <3>1. tab' = [tab EXCEPT ![t] = e] /\ UNCHANGED <<measured, storage, stored, writes>>
      BY <2>6 DEF Render, Become
    <3>2. o.at = "live"
      BY <2>6 DEF Render
    <3> HIDE DEF o
    <3>3. /\ f \in Document /\ f.at = "live" /\ f.toggle = readStoredChoice(stored)
          /\ f.banner = o.banner /\ f.script = o.script /\ f.configs = o.configs
          /\ f.off = o.off /\ f.said = o.said /\ f.attribute = o.attribute /\ f.alone = o.alone
      BY <2>1, <2>2, <3>2 DEF Document
    <3> HIDE DEF f
    <3>4. Tidy(f) /\ Honest(f)
      BY <2>1, <3>2, <3>3 DEF Tidy, Honest, Sending
    <3>5. /\ b \in Document /\ Tidy(b) /\ Honest(b) /\ Kept(f, b)
          /\ b.banner = readConsent(stored)
      BY <2>1, <3>3, <3>4, ReadIsHonest
    <3> HIDE DEF b
    <3>6. e \in Document /\ Tidy(e) /\ Honest(e) /\ Kept(b, e) /\ e.banner = b.banner
      BY <2>1, <3>5, ResetIsTold
    <3> HIDE DEF e
    <3>7. Themed(e)
      BY <2>1, <3>2, <3>3, <3>5, <3>6 DEF Themed, Kept
    <3> QED
      BY <2>1, <2>2, <3>1, <3>2, <3>5, <3>6, <3>7, OneDocument
  <2>7. CASE Close(t)
    <3>1. tab' = [tab EXCEPT ![t] = Closed] /\ UNCHANGED <<measured, storage, stored, writes>>
      BY <2>7 DEF Close, Become
    <3>2. /\ Closed \in Document /\ Closed.at = "closed" /\ Closed.banner = "none"
          /\ Tidy(Closed) /\ Honest(Closed) /\ Themed(Closed)
      BY ClosedIsEmpty DEF Tidy, Honest, Sending, Themed
    <3> QED
      BY <2>1, <3>1, <3>2, OneDocument
  <2>8. CASE Answer(t)
    <3>1. PICK c \in {"granted", "denied"} : setConsent(t, c)
      BY <2>8 DEF Answer
    <3>2. c \in Consents /\ tab[t].at = "live" /\ tab[t].banner = "unknown"
      BY <2>8 DEF Answer, Asks, Consents
    <3> QED
      BY <3>1, <3>2, AnswerIsKept
  <2>9. CASE ConsentReset(t)
    <3>1. "unknown" \in Consents /\ tab[t].at = "live" /\ setConsent(t, "unknown")
      BY <2>9 DEF ConsentReset, Consents
    <3> QED
      BY <3>1, AnswerIsKept
  <2>10. CASE OpenPrivacy(t) \/ LeavePrivacy(t)
    <3>1. PICK r \in Consents \cup {"none"} :
            /\ tab' = [tab EXCEPT ![t] = [o EXCEPT !.reset = r]]
            /\ UNCHANGED <<measured, storage, stored, writes>>
      BY <2>2, <2>10 DEF OpenPrivacy, LeavePrivacy, Become
    <3> DEFINE e == [o EXCEPT !.reset = r]
    <3> HIDE DEF o
    <3>2. /\ e \in Document /\ e.at = o.at /\ e.toggle = o.toggle /\ e.banner = o.banner
          /\ e.script = o.script /\ e.configs = o.configs /\ e.off = o.off
          /\ e.said = o.said /\ e.attribute = o.attribute /\ e.alone = o.alone
      BY <2>1 DEF Document
    <3>3. tab' = [tab EXCEPT ![t] = e]
      BY <3>1
    <3> HIDE DEF e
    <3>4. Tidy(e) /\ Honest(e) /\ Themed(e)
      BY <2>1, <3>2 DEF Tidy, Honest, Sending, Themed
    <3>5. storage = "full" /\ e.banner = "unknown" => stored.consent = "nothing"
      BY <2>1, <3>2 DEF Unanswered
    <3> QED
      BY <2>1, <3>1, <3>2, <3>3, <3>4, <3>5, OneDocument
  <2> QED
    BY <1>2, <2>3, <2>4, <2>5, <2>6, <2>7, <2>8, <2>9, <2>10, PickIsShown
<1> QED
  BY <1>1, <1>2 DEF Next

(* The inductive invariant holds in every reachable state.                      *)
THEOREM ShellInvariance == Spec => []ShellInv
BY ShellStarts, ShellSteps, PTL DEF Spec

(* Every variable keeps its type, and a tab that is not live asks nothing and   *)
(* has loaded nothing.                                                          *)
THEOREM ShellTypes == Spec => []TypeOK
<1>1. ShellInv => TypeOK
  BY DEF ShellInv, Types, Stored, Tidy, TypeOK
<1> QED
  BY <1>1, ShellInvariance, PTL

(* A document whose last answer was not a yes sends nothing, in any number of   *)
(* tabs and whatever storage did with the answer.                               *)
THEOREM NoIsAlwaysHonoured == Spec => []NoIsHonoured
<1>1. ShellInv => NoIsHonoured
  BY DEF ShellInv, Tidy, Honest, Sending, NoIsHonoured
<1> QED
  BY <1>1, ShellInvariance, PTL

(* No document configures the measurement twice.                                *)
THEOREM OnePageView == Spec => []PageViewOnce
<1>1. ShellInv => PageViewOnce
  BY DEF ShellInv, Tidy, PageViewOnce
<1> QED
  BY <1>1, ShellInvariance, PTL

(* Where storage works, the toggle of a tab that picked last names its theme.   *)
THEOREM ToggleAlwaysNamesIt == Spec => []ToggleIsTheTheme
<1>1. ShellInv => ToggleIsTheTheme
  BY DEF ShellInv, Themed, ToggleIsTheTheme
<1> QED
  BY <1>1, ShellInvariance, PTL

=============================================================================
