------------------------------ MODULE Profile ------------------------------
(***************************************************************************)
(* ProfileContextWrapper: the settings and bookmarks shown, and where they *)
(* persist.  The profile is the one named in localStorage "profile": the    *)
(* "localstorage" profile keeps settings and bookmarks in localStorage, any *)
(* other keeps them in the file /.seaweedfs-ui/profiles/<name>.json on the  *)
(* filer.  No component calls switchProfile, updateSetting or              *)
(* makeNewProfile; bookmarks change through addBookmark (a card's          *)
(* "favorite") and removeBookmark (the favorites list).  A bookmark is its *)
(* fullPath; the settings object is one value.                             *)
(***************************************************************************)
EXTENDS Naturals, Sequences, SequencesExt, FiniteSets

CONSTANTS
    BPaths,          \* paths that can be bookmarked
    FileProfile,     \* the name of a profile kept on the filer
    DefaultSettings, \* defaultSettings
    SavedSettings,   \* settings saved in the profile file
    NoFile,          \* the profile file does not exist
    WTasks,          \* addBookmark / removeBookmark calls that may await at once
    RemoteFaults,    \* "reject", "error", as in Filer
    TabLists,        \* the lists another tab of the app may write
    MaxTabWrites     \* the writes another tab makes

Local == "localstorage"

VARIABLES
    selectedProfile, \* useLocalStorage("profile")
    settings,        \* settings state
    bookmarks,       \* bookmarks state
    localBookmarks,  \* useLocalStorage("bookmarks")
    store,           \* content of the profile file on the filer
    loads,           \* loadProfile calls awaiting getContent
    writes,          \* writes[w]: an add/removeBookmark awaiting uploadFile
    listOpen,        \* FavoritesList: the list is expanded
    menu,            \* the index of the FavoriteItem whose menu is open, or 0
    clicked,         \* (ghost) the bookmark the open menu was opened on
    stored,          \* localStorage "bookmarks", shared by the tabs of the app
    events,          \* storage events for "bookmarks" not yet delivered here
    tabWrites        \* writes another tab has made

vars == <<selectedProfile, settings, bookmarks, localBookmarks, store, loads, writes,
          listOpen, menu, clicked, stored, events, tabWrites>>

tabVars == <<stored, events, tabWrites>>

view == <<listOpen, menu, clicked>>

Idle == [op |-> "none", target |-> NoFile, content |-> NoFile]

Faulty(kind) == kind \in RemoteFaults

Paths(seq) == {seq[i] : i \in DOMAIN seq}

(***************************************************************************)
(* The loadProfile effect, run on mount: the localStorage profile is set   *)
(* at once; a filer profile is fetched.  A body that is not JSON (no file, *)
(* an error page) gives the defaults.                                      *)
(***************************************************************************)
Init ==
    /\ selectedProfile \in {Local, FileProfile}
    /\ store \in {NoFile} \cup [settings : {SavedSettings}, bookmarks : {<<>>} \cup {<<b>> : b \in BPaths}]
    /\ localBookmarks \in {<<>>} \cup {<<b>> : b \in BPaths}
    /\ writes = [w \in WTasks |-> Idle]
    /\ listOpen = FALSE /\ menu = 0 /\ clicked = NoFile
    /\ stored = localBookmarks /\ events = <<>> /\ tabWrites = 0
    /\ IF selectedProfile = Local
       THEN settings = DefaultSettings /\ bookmarks = localBookmarks /\ loads = {}
       ELSE settings = DefaultSettings /\ bookmarks = <<>>
            /\ loads = {[phase |-> "sent", data |-> NoFile]}

\* getContent's fetch is answered with the file as it is now
ServeLoad(r) ==
    /\ r \in loads /\ r.phase = "sent"
    /\ \/ LET body == IF store = NoFile \/ Faulty("error")
                      THEN [settings |-> DefaultSettings, bookmarks |-> <<>>]
                      ELSE store
          IN loads' = (loads \ {r}) \cup {[phase |-> "answered", data |-> body]}
       \/ Faulty("reject") /\ loads' = loads \ {r}
    /\ UNCHANGED <<selectedProfile, settings, bookmarks, localBookmarks, store, writes>>
    /\ UNCHANGED view /\ UNCHANGED tabVars

(***************************************************************************)
(* FavoritesList renders one FavoriteItem per bookmark, keyed by its       *)
(* index, inside a Collapse that unmounts them when closed.  A render that *)
(* changes the bookmarks keeps the menu state of each index; an index past *)
(* the end unmounts with its menu.  The effect on bookmarks.length opens   *)
(* the list when it goes from empty to not empty.                          *)
(***************************************************************************)
ListEffect ==
    /\ listOpen' = (listOpen \/ (Len(bookmarks) = 0 /\ Len(bookmarks') > 0))
    /\ menu' = IF menu > Len(bookmarks') THEN 0 ELSE menu
    /\ UNCHANGED clicked

\* response.text() resolves: setSettings, setBookmarks
ApplyLoad(r) ==
    /\ r \in loads /\ r.phase = "answered"
    /\ settings' = r.data.settings
    /\ bookmarks' = r.data.bookmarks
    /\ loads' = loads \ {r}
    /\ UNCHANGED <<selectedProfile, localBookmarks, store, writes>> /\ UNCHANGED tabVars
    /\ ListEffect

(***************************************************************************)
(* addBookmark / removeBookmark compute the new list from the bookmarks    *)
(* and settings of the render they were called from.  With localStorage    *)
(* both writes happen at once (the effect reloads the same list); with a   *)
(* filer profile the file is uploaded first and the state set after.       *)
(***************************************************************************)
\* mutant: the localStorage branch only sets the state
PersistNoStorage(w, op, target, new) ==
    IF selectedProfile = Local
    THEN /\ bookmarks' = new
         /\ UNCHANGED <<writes, settings, localBookmarks>> /\ UNCHANGED tabVars
    ELSE /\ writes[w] = Idle
         /\ writes' = [writes EXCEPT ![w] = [op |-> op, target |-> target,
                         content |-> [settings |-> settings, bookmarks |-> new]]]
         /\ UNCHANGED <<localBookmarks, bookmarks, settings>> /\ UNCHANGED tabVars

Persist(w, op, target, new) ==
    IF selectedProfile = Local
    THEN /\ localBookmarks' = new /\ bookmarks' = new
         /\ stored' = new /\ UNCHANGED <<writes, settings, events, tabWrites>>
    ELSE /\ writes[w] = Idle
         /\ writes' = [writes EXCEPT ![w] = [op |-> op, target |-> target,
                         content |-> [settings |-> settings, bookmarks |-> new]]]
         /\ UNCHANGED <<localBookmarks, bookmarks, settings>> /\ UNCHANGED tabVars

\* mutant: addBookmark without the test for a bookmark of the same path
AddBookmarkNoCheck(w, b) ==
    /\ Persist(w, "add", b, Append(bookmarks, b))
    /\ UNCHANGED <<selectedProfile, store, loads>>

\* a card's "favorite"; nothing happens if the path is already bookmarked
AddBookmark(w, b) ==
    /\ b \notin Paths(bookmarks)
    /\ Persist(w, "add", b, Append(bookmarks, b))
    /\ UNCHANGED <<selectedProfile, store, loads>>

\* "Remove From Favorites" on the i-th item of the list
RemoveBookmark(w, i) ==
    /\ i \in DOMAIN bookmarks
    /\ Persist(w, "remove", bookmarks[i], RemoveAt(bookmarks, i))
    /\ UNCHANGED <<selectedProfile, store, loads>>

\* uploadFile is answered: the file is written (unless the upload failed),
\* then setBookmarks runs unless the fetch rejected
WriteDone(w) ==
    /\ writes[w] # Idle
    /\ \/ /\ store' = writes[w].content
          /\ bookmarks' = writes[w].content.bookmarks
       \/ /\ Faulty("error")
          /\ bookmarks' = writes[w].content.bookmarks
          /\ UNCHANGED store
       \/ Faulty("reject") /\ UNCHANGED <<store, bookmarks>>
    /\ writes' = [writes EXCEPT ![w] = Idle]
    /\ UNCHANGED <<selectedProfile, settings, localBookmarks, loads>> /\ UNCHANGED tabVars
    /\ ListEffect

\* the favorites header toggles the list; the item menus are modal
ToggleList ==
    /\ menu = 0 /\ listOpen' = ~listOpen
    /\ UNCHANGED <<selectedProfile, settings, bookmarks, localBookmarks, store, loads, writes>>
    /\ UNCHANGED tabVars
    /\ UNCHANGED <<menu, clicked>>

\* rightClick on the i-th item: setMenuOpen(true)
RightClick(i) ==
    /\ listOpen /\ menu = 0 /\ i \in DOMAIN bookmarks
    /\ menu' = i /\ clicked' = bookmarks[i]
    /\ UNCHANGED <<selectedProfile, settings, bookmarks, localBookmarks, store, loads, writes>>
    /\ UNCHANGED tabVars
    /\ UNCHANGED listOpen

\* the menu's onClose (a click outside it, Escape)
CloseMenu ==
    /\ menu # 0 /\ menu' = 0
    /\ UNCHANGED <<selectedProfile, settings, bookmarks, localBookmarks, store, loads, writes>>
    /\ UNCHANGED tabVars
    /\ UNCHANGED <<listOpen, clicked>>

\* the menu's remove(): removeBookmark(index), then close()
RemoveFavorite(w) ==
    /\ menu # 0 /\ RemoveBookmark(w, menu)
    /\ menu' = 0 /\ UNCHANGED <<listOpen, clicked>>

\* a card's "favorite", with no item menu open
Add(w, b) == menu = 0 /\ AddBookmark(w, b) /\ ListEffect

(***************************************************************************)
(* Another tab of the app.  Its own addBookmark / removeBookmark with the  *)
(* localStorage profile writes "bookmarks" from the list it shows, which   *)
(* this tab does not know; a setItem that changes the value queues a       *)
(* storage event for this tab.  useLocalStorage sets its state to the      *)
(* event's newValue when the event is delivered, and the profile effect,   *)
(* which depends on localBookmarks, runs again.                            *)
(***************************************************************************)
TabWrite(v) ==
    /\ selectedProfile = Local /\ tabWrites < MaxTabWrites /\ v # stored
    /\ stored' = v /\ events' = Append(events, v) /\ tabWrites' = tabWrites + 1
    /\ UNCHANGED <<selectedProfile, settings, bookmarks, localBookmarks, store, loads, writes>>
    /\ UNCHANGED view

\* the oldest storage event is delivered; the effect's localStorage branch
\* sets the states from the hooks at once (the other tab shares "profile",
\* so it writes "bookmarks" only while the localStorage profile is used)
StorageEvent ==
    /\ events # <<>>
    /\ localBookmarks' = Head(events) /\ events' = Tail(events)
    /\ bookmarks' = Head(events) /\ settings' = DefaultSettings
    /\ UNCHANGED <<selectedProfile, store, loads, writes, stored, tabWrites>>
    /\ ListEffect

Next ==
    \/ \E w \in WTasks : \/ \E b \in BPaths : Add(w, b)
                         \/ RemoveFavorite(w)
                         \/ WriteDone(w)
    \/ ToggleList \/ CloseMenu \/ \E i \in 1 .. Len(bookmarks) : RightClick(i)
    \/ \E r \in loads : ServeLoad(r) \/ ApplyLoad(r)
    \/ \E v \in TabLists : TabWrite(v)
    \/ StorageEvent

Spec == Init /\ [][Next]_vars /\ \A w \in WTasks : WF_vars(WriteDone(w))
                             /\ WF_vars(\E r \in loads : ServeLoad(r) \/ ApplyLoad(r))
                             /\ WF_vars(StorageEvent)

TypeOK ==
    /\ selectedProfile \in {Local, FileProfile}
    /\ settings \in {DefaultSettings, SavedSettings}
    /\ bookmarks \in Seq(BPaths) /\ localBookmarks \in Seq(BPaths)
    /\ store \in {NoFile} \cup [settings : {DefaultSettings, SavedSettings}, bookmarks : Seq(BPaths)]
    /\ \A w \in WTasks : writes[w] = Idle \/ writes[w].op \in {"add", "remove"}
    /\ listOpen \in BOOLEAN /\ menu \in 0..Len(bookmarks)
    /\ stored \in Seq(BPaths) /\ events \in Seq(Seq(BPaths)) /\ tabWrites \in 0..MaxTabWrites

(***************************************************************************)
(* Properties.                                                             *)
(***************************************************************************)

(* The favorites list never shows a path twice, though each add tests the  *)
(* list of the render it was called from while earlier adds still await   *)
(* their upload, and a profile load may replace the list meanwhile.        *)
NoDuplicateBookmarks ==
    \A i, j \in DOMAIN bookmarks : i # j => bookmarks[i] # bookmarks[j]

StoredPaths(st) == IF st = NoFile THEN {} ELSE Paths(st.bookmarks)

(* A bookmark saved in the profile file leaves it only by a                *)
(* removeBookmark of that bookmark (spec 6: bookmarks persist independent  *)
(* of navigation).  Each upload writes the list of the render it started   *)
(* from: an add made before the profile has loaded, or while another add   *)
(* awaits, writes a list without the other bookmarks.                      *)
BookmarksNotLost ==
    [][\A b \in StoredPaths(store) \ StoredPaths(store') :
         \E w \in WTasks : writes[w].op = "remove" /\ writes[w].target = b
                           /\ writes'[w] = Idle]_vars

(* Nothing in the UI changes the settings, so the settings saved in the    *)
(* profile file stay as they are.  Every bookmark upload also writes the   *)
(* settings state, which holds the defaults until the profile has loaded.  *)
SettingsPreserved ==
    [][store # NoFile => store'.settings = store.settings]_vars

(* The open menu of the favorites list belongs to the bookmark it was      *)
(* opened on, so "Remove From Favorites" removes the bookmark the user     *)
(* right-clicked.  The items are keyed by index and the menu by the item: *)
(* a profile load or an upload's setBookmarks that changes the list while  *)
(* the menu is open moves the menu onto another bookmark.                  *)
MenuOnClickedBookmark == menu # 0 => bookmarks[menu] = clicked

(* With the localStorage profile and two tabs of the app open, once every  *)
(* storage event has been delivered this tab shows the list localStorage   *)
(* holds, so its next add or remove starts from it (spec 6: bookmarks      *)
(* persist).  useLocalStorage applies each event's newValue in the order   *)
(* of the writes, also the value of a write this tab has since overwritten *)
(* with its own addBookmark.                                               *)
LocalShownIsStorage ==
    selectedProfile = Local /\ events = <<>> => bookmarks = stored

=============================================================================
