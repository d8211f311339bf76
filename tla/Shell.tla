--------------------------------- MODULE Shell ---------------------------------
(* What every page of the site carries: the question whether it may measure and *)
(* the way back from it (ConsentBanner.tsx, analytics.ts), and the choice       *)
(* between light and dark (ThemeToggle.tsx, themeStore.ts, theme.ts).  Both     *)
(* answers live in the browser's localStorage, which all tabs share and no tab  *)
(* listens to; what a document has loaded, switched off or put on its root      *)
(* element is its own until it is closed.                                       *)
EXTENDS Naturals, FiniteSets

CONSTANTS
    Tabs,
    Access,     \* how storage may behave: works, is full, or denies any access
    MaxWrites   \* bound: how often a visitor answers, picks or takes it back

ASSUME ShellAssumption ==
    IsFiniteSet(Tabs) /\ Access \subseteq {"works", "full", "denied"} /\ MaxWrites \in Nat

VARIABLES
    measured,  \* the build has a measurement ID
    storage,   \* how localStorage behaves
    stored,    \* ampeer-meting and ampeer-thema
    tab,       \* per tab, its document
    writes     \* for the bound

vars == <<measured, storage, stored, tab, writes>>

Consents == {"granted", "denied", "unknown"}
Themes   == {"light", "dark"}

(* banner and reset are the answers the two components have read, or "none" for *)
(* one that is not on the page; said is the last yes or no given in this        *)
(* document, or the one it loaded with or acted on, and alone that no other tab *)
(* wrote a theme since its own.                                                 *)
Closed == [at |-> "closed", banner |-> "none", reset |-> "none", toggle |-> "system",
           attribute |-> "system", script |-> FALSE, off |-> FALSE, configs |-> 0,
           said |-> "unknown", alone |-> TRUE]

Document == [at : {"closed", "built", "live", "crashed"},
             banner : Consents \cup {"none"}, reset : Consents \cup {"none"},
             toggle : Themes \cup {"system"}, attribute : Themes \cup {"system"},
             script : BOOLEAN, off : BOOLEAN, configs : 0 .. MaxWrites + 1,
             said : Consents, alone : BOOLEAN]

-----------------------------------------------------------------------------
(* analytics.ts and theme.ts on a storage that can be read.                     *)
readConsent(s) ==
    IF s.consent = "ja" THEN "granted" ELSE IF s.consent = "nee" THEN "denied" ELSE "unknown"

readStoredChoice(s) == IF s.theme \in Themes THEN s.theme ELSE "system"

(* A full storage refuses setItem and takes removeItem.                         *)
writeConsent(c) ==
    IF c = "unknown" THEN [stored EXCEPT !.consent = "nothing"]
    ELSE IF storage = "full" THEN stored
    ELSE [stored EXCEPT !.consent = IF c = "granted" THEN "ja" ELSE "nee"]

writeStoredChoice(c) ==
    IF c = "system" THEN [stored EXCEPT !.theme = "nothing"]
    ELSE IF storage = "full" THEN stored
    ELSE [stored EXCEPT !.theme = c]

(* Mutant: the script is not looked for.                                        *)
loadAnalyticsAgain(d) ==
    IF ~measured THEN d
    ELSE [d EXCEPT !.script = TRUE, !.off = FALSE, !.configs = @ + 1]

(* Once per document: a script that is there is left as it is, and so is the    *)
(* switch that stops it.                                                        *)
loadAnalytics(d) ==
    IF ~measured \/ d.script THEN d
    ELSE [d EXCEPT !.script = TRUE, !.off = FALSE, !.configs = @ + 1]

disableAnalytics(d) == IF measured THEN [d EXCEPT !.off = TRUE] ELSE d

Told(d, c) == IF c = "unknown" THEN d ELSE [d EXCEPT !.said = c]

(* The banner reads storage and renders; the effect runs when the answer it     *)
(* reads has become a yes.                                                      *)
BannerReads(d, s) ==
    LET c == readConsent(s)
        e == [d EXCEPT !.banner = c]
    IN  IF c = "granted" /\ d.banner # "granted" THEN loadAnalytics(Told(e, c))
        ELSE IF d.banner = "none" THEN Told(e, c) ELSE e

ResetReads(d, s) == IF d.reset = "none" THEN d ELSE [d EXCEPT !.reset = readConsent(s)]

-----------------------------------------------------------------------------
Init ==
    /\ measured \in BOOLEAN
    /\ storage \in Access
    /\ stored \in [consent : {"nothing", "ja", "nee"}, theme : Themes \cup {"nothing"}]
    /\ tab = [t \in Tabs |-> Closed]
    /\ writes = 0

Become(t, d) == tab' = [tab EXCEPT ![t] = d]

(* A page loads.  The inline script runs before the first paint and has its own *)
(* try: what it cannot read it leaves to the system.                            *)
Open(t) ==
    /\ tab[t].at = "closed"
    /\ Become(t, [Closed EXCEPT !.at = "built",
                    !.attribute = IF storage = "denied" THEN "system" ELSE readStoredChoice(stored)])
    /\ UNCHANGED <<measured, storage, stored, writes>>

(* React takes over: both stores are asked for their snapshot.  The argument    *)
(* `window.localStorage` is evaluated outside the try of the function it is     *)
(* given to; where it throws, the page goes with it.                            *)
Hydrate(t) ==
    /\ tab[t].at = "built"
    /\ Become(t, IF storage = "denied" THEN [tab[t] EXCEPT !.at = "crashed"]
                 ELSE BannerReads([tab[t] EXCEPT !.at = "live",
                                     !.toggle = readStoredChoice(stored)], stored))
    /\ UNCHANGED <<measured, storage, stored, writes>>

(* Mutant: the switch is only thrown where the answer was remembered.           *)
setConsentRemembered(t, c) ==
    /\ writes < MaxWrites /\ writes' = writes + 1
    /\ stored' = writeConsent(c)
    /\ LET d == IF readConsent(stored') = "denied" THEN disableAnalytics(tab[t]) ELSE tab[t]
       IN  Become(t, Told(ResetReads(BannerReads(d, stored'), stored'), c))
    /\ UNCHANGED <<measured, storage>>

(* setConsent: written, switched off for a no, and both components told.        *)
setConsent(t, c) ==
    /\ writes < MaxWrites /\ writes' = writes + 1
    /\ stored' = writeConsent(c)
    /\ LET d == IF c = "denied" THEN disableAnalytics(tab[t]) ELSE tab[t]
       IN  Become(t, Told(ResetReads(BannerReads(d, stored'), stored'), c))
    /\ UNCHANGED <<measured, storage>>

(* The two buttons of the question, which stands while the answer is unknown.   *)
Asks(d) == d.at = "live" /\ measured /\ d.banner = "unknown"
Answer(t) == Asks(tab[t]) /\ \E c \in {"granted", "denied"} : setConsent(t, c)

(* The privacy page and its button, for an answer that is there.                *)
OpenPrivacy(t) ==
    /\ tab[t].at = "live" /\ tab[t].reset = "none"
    /\ Become(t, [tab[t] EXCEPT !.reset = readConsent(stored)])
    /\ UNCHANGED <<measured, storage, stored, writes>>

LeavePrivacy(t) ==
    /\ tab[t].reset # "none"
    /\ Become(t, [tab[t] EXCEPT !.reset = "none"])
    /\ UNCHANGED <<measured, storage, stored, writes>>

ConsentReset(t) ==
    /\ tab[t].at = "live" /\ measured /\ tab[t].reset \in {"granted", "denied"}
    /\ setConsent(t, "unknown")

(* A render for another reason: React compares the snapshots again and finds    *)
(* what another tab wrote.                                                      *)
Render(t) ==
    /\ tab[t].at = "live"
    /\ Become(t, ResetReads(BannerReads([tab[t] EXCEPT !.toggle = readStoredChoice(stored)], stored),
                            stored))
    /\ UNCHANGED <<measured, storage, stored, writes>>

(* Mutant: the listeners are told before the choice is written.                 *)
setThemeChoiceToldFirst(t, c) ==
    /\ stored' = writeStoredChoice(c)
    /\ tab' = [u \in Tabs |->
                 IF u = t THEN [tab[t] EXCEPT !.attribute = c, !.alone = TRUE,
                                  !.toggle = readStoredChoice(stored)]
                 ELSE [tab[u] EXCEPT !.alone = FALSE]]

(* setThemeChoice: written, put on the root element, and the toggle told.       *)
setThemeChoice(t, c) ==
    /\ stored' = writeStoredChoice(c)
    /\ tab' = [u \in Tabs |->
                 IF u = t THEN [tab[t] EXCEPT !.attribute = c, !.alone = TRUE,
                                  !.toggle = readStoredChoice(stored')]
                 ELSE [tab[u] EXCEPT !.alone = FALSE]]

PickTheme(t) ==
    /\ tab[t].at = "live" /\ writes < MaxWrites /\ writes' = writes + 1
    /\ \E c \in Themes \cup {"system"} : c # tab[t].toggle /\ setThemeChoice(t, c)
    /\ UNCHANGED <<measured, storage>>

Close(t) ==
    /\ tab[t].at # "closed" /\ Become(t, Closed)
    /\ UNCHANGED <<measured, storage, stored, writes>>

Next == \E t \in Tabs :
    \/ Open(t)   \/ Hydrate(t)     \/ Render(t)       \/ Close(t)
    \/ Answer(t) \/ OpenPrivacy(t) \/ LeavePrivacy(t) \/ ConsentReset(t)
    \/ PickTheme(t)

Spec == Init /\ [][Next]_vars

-----------------------------------------------------------------------------
(* Types, and what a closed tab keeps: nothing.                                 *)
TypeOK ==
    /\ measured \in BOOLEAN /\ storage \in Access
    /\ stored \in [consent : {"nothing", "ja", "nee"}, theme : Themes \cup {"nothing"}]
    /\ tab \in [Tabs -> Document]
    /\ writes \in 0 .. MaxWrites
    /\ \A t \in Tabs : tab[t].at # "live" => tab[t].banner = "none" /\ ~tab[t].script

Sending(d) == d.script /\ ~d.off

(* A document whose last answer is not a yes sends nothing, whatever storage    *)
(* kept of it; and a build without an ID never does.                            *)
NoIsHonoured == \A t \in Tabs : Sending(tab[t]) => tab[t].said = "granted" /\ measured

(* A document configures the measurement once, however often it is asked again: *)
(* a second time would be a second page view.                                   *)
PageViewOnce == \A t \in Tabs : tab[t].configs <= 1

(* Where storage works and no other tab has picked, the toggle names the theme  *)
(* that is on the page.                                                         *)
ToggleIsTheTheme ==
    \A t \in Tabs : storage = "works" /\ tab[t].at = "live" /\ tab[t].alone =>
        tab[t].toggle = tab[t].attribute

(* What analytics.ts says of every page: after a visitor has said no, none asks *)
(* anything of anybody.  A no in one tab does not reach the others.             *)
NothingAfterNo == stored.consent = "nee" => \A t \in Tabs : ~Sending(tab[t])

(* A storage that cannot be read costs a visitor no page.                       *)
SiteSurvives == \A t \in Tabs : tab[t].at # "crashed"

=============================================================================
