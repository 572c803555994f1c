----------------------------- MODULE ShellChrome -----------------------------
(***************************************************************************)
(* The chrome around the dashboard's pages: the navigation with its rail   *)
(* and its drawer on a phone, the organization switchers in them, the      *)
(* command palette, and where they lead.  A path is the sequence of its    *)
(* segments; a change of path is asked of the router and lands later, the  *)
(* last one asked.  A query of the palette is the set of items it matches. *)
(***************************************************************************)
EXTENDS Naturals, Integers, Sequences, FiniteSets

CONSTANTS StatementIds,  \* path segments: statements
          Queries,       \* what typed queries match
          Visited,       \* bound: the paths asked of the router
          MaxHighlight,  \* bound: how far down the highlight is moved
          ChromeFaults   \* of "late answer", "address bar", "other tab"

VARIABLES rail,     \* [stored, collapsed, mobile, drawer, foreign]; history: foreign, another
                    \* tab has written what is stored since this one did, or read it
          menus,    \* open organization switchers, of "rail" and "drawer"
          palette,  \* [open, query, index]
          pathname,       \* the path shown
          onward,   \* the path asked for, none or one
          orgKind,  \* the active organization's kind
          uploading, \* a statement's upload is unanswered
          astray    \* history: a late answer or a typed address led to a statement

chromeVars == <<rail, menus, palette, pathname, onward, orgKind, uploading, astray>>

-----------------------------------------------------------------------------
(* Paths and routes                                                        *)

Path(segments) == <<"dashboard">> \o segments
Onboarding == <<"onboarding">>  \* the sign-in page too: no shell is mounted
Imports == Path(<<"imports">>)
Company == Path(<<"company">>)
Ratios == Path(<<"company", "ratios">>)
StatementPath(id) == Path(<<"company", "statements", id>>)

Route(segments, nested, group) ==
  [href |-> Path(segments), nested |-> nested, group |-> group]

NavRoutes ==
  <<Route(<<>>, FALSE, ""), Route(<<"transactions">>, FALSE, ""),
    Route(<<"imports">>, TRUE, ""), Route(<<"accounts">>, FALSE, ""),
    Route(<<"reports">>, FALSE, ""), Route(<<"company">>, TRUE, "Company"),
    Route(<<"company", "ratios">>, FALSE, "Company"), Route(<<"taxes">>, TRUE, "Taxes"),
    Route(<<"categories">>, TRUE, ""), Route(<<"settings">>, TRUE, "")>>

Routes == {NavRoutes[i] : i \in DOMAIN NavRoutes}

\* path.startsWith(above + "/")
Under(path, above) == Len(above) < Len(path) /\ SubSeq(path, 1, Len(above)) = above
AtOrUnder(path, above) == path = above \/ Under(path, above)

\* A nested route is active below its path, where no deeper one of them is.
IsActive(path, r, routes) ==
  \/ path = r.href
  \/ /\ r.nested /\ Under(path, r.href)
     /\ ~ \E other \in routes : Under(other.href, r.href) /\ AtOrUnder(path, other.href)

ForKind(kind, routes) ==
  IF kind = "company" THEN routes ELSE {r \in routes : r.group # "Company"}

\* Of the tabs of a page that are sub-routes, the longest that the path is at
\* or below.
SelectedTabs(path, tabs) ==
  {t \in tabs : AtOrUnder(path, t) /\ \A u \in tabs : AtOrUnder(path, u) => Len(u) <= Len(t)}

\* The keys that move the focus among n tabs, from the one at i of 0..n-1.
TabKey(key, i, n) ==
  CASE key = "Home" -> 0
    [] key = "End" -> n - 1
    [] key = "ArrowRight" -> (i + 1) % n
    [] key = "ArrowLeft" -> (i - 1 + n) % n

-----------------------------------------------------------------------------
(* The palette's items                                                     *)

ActionPaths(kind) ==
  <<Path(<<"transactions">>), Imports>>
  \o (IF kind = "company" THEN <<Company>> ELSE <<>>)
  \o <<Path(<<"categories">>), Path(<<"reports">>), Path(<<"accounts">>),
       Path(<<"taxes", "file">>)>>

\* The items are numbered in the order shown: actions, then places.
ActionItem(i, kind) == [group |-> "action", path |-> ActionPaths(kind)[i]]
PlaceItem(r) == [group |-> "navigate", path |-> r.href]
Shown(kind) ==
  {<<i, ActionItem(i, kind)>> : i \in DOMAIN ActionPaths(kind)}
  \cup {<<100 + i, PlaceItem(NavRoutes[i])>> :
          i \in {j \in DOMAIN NavRoutes : NavRoutes[j] \in ForKind(kind, Routes)}}

AllItems == {s[2] : s \in Shown("company")}
Filtered(kind, query) == {s \in Shown(kind) : s[2] \in query}

ASSUME ShellChromeAssumption ==
  /\ Queries \subseteq SUBSET AllItems
  /\ MaxHighlight \in Nat /\ ChromeFaults \subseteq {"late answer", "address bar", "other tab"}

Closed == [open |-> FALSE, query |-> AllItems, index |-> 0]

\* filtered[index], when there is one.
Highlighted ==
  {s \in Filtered(orgKind, palette.query) :
     Cardinality({t \in Filtered(orgKind, palette.query) : t[1] < s[1]}) = palette.index}

-----------------------------------------------------------------------------
(* Going places                                                            *)

\* The company pages send away whose organization is personal.
TurnedAway(kind, path) == kind = "personal" /\ path \in {Company, Ratios}

Go(path) == path \in Visited /\ onward' = <<path>>

\* The shell unmounts; its rail is on record.
Gone == /\ rail' = [rail EXCEPT !.drawer = FALSE] /\ menus' = {} /\ palette' = Closed

\* A new shell reads what is stored.
Enter(path, kind) ==
  /\ rail' = [rail EXCEPT !.collapsed = rail.stored, !.drawer = FALSE,
                            !.foreign = FALSE]
  /\ menus' = {} /\ palette' = Closed
  /\ pathname' = path /\ orgKind' = kind
  /\ onward' = IF TurnedAway(kind, path) THEN <<Imports>> ELSE <<>>

Land ==
  /\ onward # <<>>
  /\ IF pathname = Onboarding THEN Enter(onward[1], orgKind)
     ELSE /\ pathname' = onward[1]
          /\ onward' = IF TurnedAway(orgKind, onward[1]) THEN <<Imports>> ELSE <<>>
          /\ IF onward[1] = Onboarding THEN Gone ELSE UNCHANGED <<rail, menus, palette>>
          /\ UNCHANGED orgKind
  /\ astray' = (astray /\ AtOrUnder(pathname', Company))
  /\ UNCHANGED uploading

\* Onboarding, or a new sign-in, ends at the overview.
ComeIn ==
  /\ pathname = Onboarding /\ \E kind \in {"personal", "company"} : Enter(Path(<<>>), kind)
  /\ astray' = FALSE /\ UNCHANGED uploading

\* An address that is typed loads the application anew.
AddressBar ==
  /\ "address bar" \in ChromeFaults
  /\ \E id \in StatementIds : Enter(StatementPath(id), orgKind)
  /\ uploading' = FALSE /\ astray' = TRUE

InShell == pathname # Onboarding

-----------------------------------------------------------------------------
(* The navigation                                                          *)

\* A pointer pressed outside a switcher closes it; a key does not.
PressOutside(inside) == menus' \in {menus, menus \cap inside}

Resize ==
  /\ InShell
  /\ rail' = [rail EXCEPT !.mobile = ~ @, !.drawer = FALSE]
  /\ menus' = menus \ {"drawer"}
  /\ UNCHANGED <<palette, pathname, onward, orgKind, uploading, astray>>

\* On a phone the rail's button opens the drawer and nothing is stored.
OnCollapsedChange ==
  /\ InShell /\ ~ rail.drawer
  /\ rail' = IF rail.mobile THEN [rail EXCEPT !.drawer = TRUE]
             ELSE [rail EXCEPT !.collapsed = ~ @, !.stored = ~ rail.collapsed,
                                          !.foreign = FALSE]
  /\ PressOutside({})
  /\ UNCHANGED <<palette, pathname, onward, orgKind, uploading, astray>>

CollapsedElsewhere ==
  /\ "other tab" \in ChromeFaults /\ rail' = [rail EXCEPT !.stored = ~ @, !.foreign = TRUE]
  /\ UNCHANGED <<menus, palette, pathname, onward, orgKind, uploading, astray>>

\* The open drawer is a dialog: nothing behind it can be reached.
Reached == IF rail.drawer THEN "drawer" ELSE "rail"

CloseDrawer ==
  /\ rail' = [rail EXCEPT !.drawer = FALSE]
  /\ menus' \in {menus \ {"drawer"}, {}}

NavClick ==
  /\ InShell /\ \E r \in ForKind(orgKind, Routes) : Go(r.href)
  /\ CloseDrawer
  /\ UNCHANGED <<palette, pathname, orgKind, uploading, astray>>

ScrimTap ==
  /\ rail.drawer /\ CloseDrawer
  /\ UNCHANGED <<palette, pathname, onward, orgKind, uploading, astray>>

ToggleSwitcher ==
  /\ InShell
  /\ menus' = IF Reached \in menus THEN menus \ {Reached} ELSE menus \cup {Reached}
  /\ UNCHANGED <<rail, palette, pathname, onward, orgKind, uploading, astray>>

\* The page that is shown turns away too when its organization changes.
PickOrg ==
  /\ Reached \in menus
  /\ \E kind \in {"personal", "company"} :
       /\ orgKind' = kind
       /\ onward' = IF kind = "personal" /\ AtOrUnder(pathname, Company)
                    THEN <<Imports>> ELSE onward
  /\ menus' = menus \ {Reached}
  /\ UNCHANGED <<rail, palette, pathname, uploading, astray>>

OnCreate ==
  /\ Reached \in menus /\ Go(Onboarding) /\ CloseDrawer
  /\ UNCHANGED <<palette, pathname, orgKind, uploading, astray>>

EndSession ==
  /\ InShell /\ pathname' = Onboarding /\ onward' = <<>> /\ Gone
  /\ UNCHANGED <<orgKind, uploading, astray>>

-----------------------------------------------------------------------------
(* The palette                                                             *)

CommandK ==
  /\ InShell /\ palette' = IF palette.open THEN Closed ELSE [palette EXCEPT !.open = TRUE]
  /\ UNCHANGED <<rail, menus, pathname, onward, orgKind, uploading, astray>>

\* Every layer listens to the document by itself.
Escape ==
  /\ InShell /\ palette' = Closed /\ menus' = {} /\ rail' = [rail EXCEPT !.drawer = FALSE]
  /\ UNCHANGED <<pathname, onward, orgKind, uploading, astray>>

PaletteInUse == palette.open /\ ~ rail.drawer

TypeQuery ==
  /\ PaletteInUse /\ \E q \in Queries \cup {AllItems} :
       palette' = [palette EXCEPT !.query = q, !.index = 0]
  /\ UNCHANGED <<rail, menus, pathname, onward, orgKind, uploading, astray>>

\* The arrows move the highlight, down an empty list to -1; the pointer puts
\* it on an item.
Highlight ==
  /\ PaletteInUse
  /\ LET last == Cardinality(Filtered(orgKind, palette.query)) - 1
     IN \E i \in 0..last \cup {IF last < palette.index + 1 THEN last ELSE palette.index + 1,
                             IF palette.index - 1 < 0 THEN 0 ELSE palette.index - 1} :
          i <= MaxHighlight /\ palette' = [palette EXCEPT !.index = i]
  /\ UNCHANGED <<rail, menus, pathname, onward, orgKind, uploading, astray>>

\* Enter, or a click.
RunHighlighted ==
  /\ PaletteInUse /\ \E s \in Highlighted : Go(s[2].path)
  /\ palette' = Closed
  /\ UNCHANGED <<rail, menus, pathname, orgKind, uploading, astray>>

-----------------------------------------------------------------------------
(* What the company pages ask of the router                                *)

GoToStatement ==
  /\ pathname \in {Company, Ratios} /\ orgKind = "company" /\ ~ PaletteInUse
  /\ \/ pathname = Company /\ \E id \in StatementIds : Go(StatementPath(id))
     \/ pathname = Ratios /\ Go(Company)
  /\ UNCHANGED <<rail, menus, palette, pathname, orgKind, uploading, astray>>

\* A file is uploaded, or a statement that is typed by hand is sent.
UploadStatement ==
  /\ pathname = Company /\ orgKind = "company" /\ ~ uploading /\ uploading' = TRUE
  /\ UNCHANGED <<rail, menus, palette, pathname, onward, orgKind, astray>>

\* Its answer opens the statement, wherever the user has gone since; without
\* the fault it comes while the page is shown.
StatementUploaded ==
  /\ uploading /\ uploading' = FALSE
  /\ LET shown == pathname = Company /\ orgKind = "company"
     IN /\ shown \/ "late answer" \in ChromeFaults
        /\ astray' = (astray \/ ~ shown)
  /\ \E id \in StatementIds : Go(StatementPath(id))
  /\ UNCHANGED <<rail, menus, palette, pathname, orgKind>>

UploadFails ==
  /\ uploading /\ uploading' = FALSE
  /\ UNCHANGED <<rail, menus, palette, pathname, onward, orgKind, astray>>

ShellChromeInit ==
  /\ rail = [stored |-> FALSE, collapsed |-> FALSE, mobile |-> FALSE, drawer |-> FALSE,
            foreign |-> FALSE]
  /\ menus = {} /\ palette = Closed /\ pathname = Path(<<>>) /\ onward = <<>>
  /\ orgKind \in {"personal", "company"} /\ uploading = FALSE /\ astray = FALSE

ShellChromeNext ==
  \/ Land \/ ComeIn \/ AddressBar \/ Resize \/ OnCollapsedChange \/ CollapsedElsewhere
  \/ NavClick \/ ScrimTap \/ ToggleSwitcher \/ PickOrg \/ OnCreate \/ EndSession
  \/ CommandK \/ Escape \/ TypeQuery \/ Highlight \/ RunHighlighted
  \/ GoToStatement \/ UploadStatement \/ StatementUploaded \/ UploadFails

ShellChromeSpec == ShellChromeInit /\ [][ShellChromeNext]_chromeVars

-----------------------------------------------------------------------------
(* Properties                                                              *)

Paths ==
  {Onboarding, Company} \cup {r.href : r \in Routes} \cup {Path(<<"taxes", "file">>)}
  \cup {StatementPath(id) : id \in StatementIds}

ShellChromeTypeOK ==
  /\ rail \in [stored : BOOLEAN, collapsed : BOOLEAN, mobile : BOOLEAN, drawer : BOOLEAN,
              foreign : BOOLEAN]
  /\ menus \subseteq {"rail", "drawer"}
  /\ palette \in [open : BOOLEAN, query : SUBSET AllItems, index : Int] /\ palette.index >= -1
  /\ pathname \in Paths /\ onward \in {<<>>} \cup {<<p>> : p \in Paths}
  /\ orgKind \in {"personal", "company"} /\ uploading \in BOOLEAN /\ astray \in BOOLEAN

\* The drawer is a phone's: on a wider screen neither it nor its switcher is
\* there (DashboardShell.tsx:161-167, 350-355).
DrawerIsAPhones ==
  /\ rail.drawer => rail.mobile
  /\ "drawer" \in menus => rail.drawer

\* A closed palette has forgotten its query (CommandPalette.tsx:84-92).
ClosedIsFresh == ~ palette.open => palette = Closed

\* The rail is as it was last left on a wide screen, by this tab or as it was
\* read (DashboardShell.tsx:174-187): a phone leaves no trace.
RailIsRemembered == ~ rail.foreign => rail.collapsed = rail.stored

\* Whose organization is personal is not left on a page of the companies'
\* (DashboardShell.tsx:189-198, CompanyStatementsView.tsx:79-93), except on a
\* statement that a late answer or a typed address led to.
PersonalLeavesCompany ==
  orgKind = "personal" /\ AtOrUnder(pathname, Company) =>
    onward # <<>> \/ (astray /\ ~ TurnedAway(orgKind, pathname))
=============================================================================
