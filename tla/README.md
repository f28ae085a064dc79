# TLA+ models of the SeaweedFS file manager UI

This directory models the state machines of the browser file manager in
`src/frontend/seaweedfs-ui/src` and checks them with TLC. All source paths below
are relative to that directory.

## The system

The UI is a single-page React application over a remote filer (SeaweedFS) that
it reaches through `fetch`. It has no concurrency core of its own. It does run
several asynchronous tasks on one event loop: listing loads, paste, recursive
copy and bulk delete. These tasks interleave at every `await`, with each other
and with user gestures. The parts and how they interact:

| Part | Code | State | Operations |
|---|---|---|---|
| Filer client | `seaweedfs/filer.ts`, `folder.ts`, `file.ts` | none (the filer is remote) | getFiles / `Folder.getContent`, getRawContent, uploadFile, createFolder, deleteItem, copyFile, copyDirectory |
| Navigation | `context/LocationContextWrapper.tsx` | currentLocation, history, refreshCount, localStorage path | updateLocation, goBack, refresh, reload (getStoredPath) |
| Listing view | `content/FileExplorer.tsx` | files shown | loadFiles effect on [location, refreshCount] |
| Selection / clipboard | `context/SelectionContextWrapper.tsx`, `dialogs/DeleteMultipleDialog.tsx` | selected, clipboard, alert, delete dialog | handle, replaceSelection, clear on navigation, copy, cut, paste, del, closeAlert, keyboard handler |
| Gestures | `content/cardview/*.tsx`, `nav/TopNav.tsx` | marquee drag state | ctrl-click, checkbox, marquee, select-all, card copy, card delete |
| Details view | `content/DetailsView.tsx`, `dialogs/CopyMoveDialog.tsx` | its own row selection, the footer's downloading flag and rows per page, the grid's page | footer delete, copy-to, move-to, download, pagination |
| Profile | `context/ProfileContextWrapper.tsx`, `nav/FavoritesList.tsx`, `nav/Settings.tsx` | settings, bookmarks (localStorage or a file on the filer) | load, updateSetting, add/removeBookmark |
| Auth | `context/AuthContextWrapper.tsx`, `api/auth.ts`, `pages/LoginPage.tsx`, `App.tsx` | token, sessionStorage, the login form, the settings menu | login (two API calls), the settings menu and its dialogs, logout, reload |
| Upload | `dialogs/UploadFileDialog.tsx`, `dialogs/TextFileDialog.tsx`, `content/DragAndDropHandler.tsx` | dropped files, dropzone, folder files, subfolder, the text-file form | drop, add, delete, submit loop (createFolder, uploadFile), close |
| Cluster info | `seaweedfs/master.ts`, `dialogs/ClusterInfoDialog.tsx` | clusterInfo shown | getClusterInfo (fetch /vol/status, count), one call per opening of the dialog |
| Card menus | `content/cardview/FileCard.tsx`, `FolderCard.tsx`, `dialogs/DeleteItemConfirmation.tsx` | the open menu, the item dialog | right click, Open / Download, Copy, Delete, double click, the card's del |

They interact as follows:

1. Navigation drives the listing load and clears the selection.
2. Gestures change the selection and the clipboard.
3. Paste and delete call the filer client, then call refresh, which reloads the listing.
4. A paste reads the current location again for each item it copies.

## Modules

- **`Filer.tla`** models the filer as the client sees it.
  - A path is a sequence of segment names.
  - `fs` maps existing paths to `Dir` or to a content value.
  - `Listing` is `Folder.getContent`. It prepends the synthetic parent entry, whose path is the request string up to its last slash. So for `src/` the parent entry is `src` itself. An entry is a file exactly when the filer sent `chunks`.
  - `CreateFolderResult`/`Effect`, `UploadEffect`, `DeleteEffect` and `ReadBody` are the answers and effects of the client calls.
  - `RemoteFaults` adds "reject" (the fetch rejects) and "error" (a non-2xx answer with no effect).
  - `MaxDepth` is the deepest path the filer accepts. It stands in for the filer eventually refusing ever longer paths.
- **`CopyDirectory.tla`** models `copyFile` and `copyDirectory` as async tasks.
  - Each task has an explicit call stack `cstack`, one frame per active call.
  - There is one action per await: `FileRead`, `FileUpload`, `DirCreate`, `DirList`, and `DirLoop` (one loop turn).
  - A rejection unwinds the whole stack (`Throw`), because nothing catches it.
  - A non-2xx answer is returned to a caller that never looks at it.
- **`CopyTask.tla`** is one `copyDirectory(Src, DestDir)` call on its own.
- **`FileManager.tla`** extends `CopyDirectory` and composes navigation, the listing loads, selection, clipboard, paste, bulk and card delete, and the gestures.
  - `paste[t]` is the paste task: its program counter, its snapshot of the clipboard, the item index and the destination. It copies through the same call stack `cstack[t]`.
  - `dels[d]` is a `del()` call.
  - `fetches` holds the `loadFiles` calls in flight. Each call is two steps: the answer (`ServeFetch`), then `setFiles` (`ApplyFetch`).
  - `filesDir` (ghost) is the folder that the listing shown was loaded for.
  - `paste[t].dests` (ghost) is the set of destinations a paste used.
  - Code between two awaits runs without interruption on the event loop. A task inside such a stretch (`InSync`) excludes every other step; everything else requires `Quiet`.
  - React state updates and the effects they trigger are taken as one step. Examples are the clear of the selection and the load on a change of location.
- **`DetailsView.tla`** extends `CopyDirectory` and models the details view's footer (`content/DetailsView.tsx`, `dialogs/CopyMoveDialog.tsx`).
  - `rows` is the listing shown. Row id `i` is `rows[i]`, because the view numbers rows by index.
  - `selIds` is the DataGrid's selection model, and `selected` holds the entries `handleSelectionChange` last mapped from it. On a new listing (`SyncSelection`) the DataGrid drops ids past the end and reports the rest. If every id still names a row it reports nothing, and `selected` keeps the old entries.
  - `job[t]` is `handleCopyTo`/`handleMoveTo`. It runs each item's copy on `cstack[t]`, and for a move it then calls `deleteItem` whatever the copy did. `loading`, `cmOpen`, `confirmOpen` and `destPath` are the dialog's state.
  - `dels[d]` is the footer's `del()`.
  - A listing is loaded in one step here. The order in which loads finish is checked in FileManager.
- **`PathUtil.tla`** models the client's path strings (`seaweedfs/file.ts`, `filer.ts`, the location bar). It has no dynamics: each state is one input case.
  - A string is a sequence of one-character strings. The JS string operations (`startsWith`, `lastIndexOf`, `slice`, `replace`, `split`) are written over them.
  - `GetName`, `GetFullPath`, `LocationPath` (what `updateLocation` stores), `CopyFileDest` and `CopyDirectoryDest` are the code.
  - `UrlSegments` is what the filer receives. `fetch` parses `connectionString + path` as a URL, which removes `.` and `..` segments. The filer is taken not to distinguish an empty segment from none.
  - `Resolve` is the reference: the folder a path typed in the current folder names.
  - Inputs are every string of `/`, `.` and `a` up to 4 characters: typed strings, locations (no empty segment except a trailing one), and entry paths.
- **`Profile.tla`** models `ProfileContextWrapper`: the profile load and the bookmark edits.
  - `selectedProfile` is `"localstorage"` or a profile kept on the filer (`FileProfile`); `store` is that profile file (`NoFile` when absent).
  - `loads` holds the `loadProfile` call in flight (`ServeLoad`, then `ApplyLoad`). A body that is not the JSON of a profile gives the defaults.
  - `writes[w]` is an `addBookmark`/`removeBookmark` awaiting its `uploadFile`. Its content is built from the `bookmarks` and `settings` of the render it was called from, as the callbacks' closures are; `WriteDone` writes the file and then sets the state.
  - With localStorage the edit writes `localBookmarks` and the state in one step, and the effect it triggers reloads the same list.
  - `listOpen` and `menu` are the favorites list of `nav/FavoritesList.tsx`: the Collapse, and the index of the item whose menu is open. Items are keyed by index, so a new list keeps the open menu at its index (`ListEffect`) and drops it only past the end; the list opens when it goes from empty to not empty. `clicked` (ghost) is the bookmark the menu was opened on, and `RemoveFavorite` is the menu's remove.
  - A second tab of the app shares localStorage. `stored` is localStorage `"bookmarks"`, and `localBookmarks` is this tab's `useLocalStorage` state. `TabWrite` is the other tab's own add or remove. That tab shares `"profile"`, so it writes only with the localStorage profile, and it writes a list of its own, one of `TabLists`. Each write that changes the value queues a storage event (`events`). `StorageEvent` delivers the oldest one: the hook takes its `newValue`, and the profile effect sets the list shown from it.
- **`Upload.tla`** models the upload dialog as `DragAndDropHandler` renders it, and the text-file dialog.
  - A location and a file's folder are sequences of names; `FileDir` gives the folder path a file brings with it (a folder drop), `Locations` the folders the user can be in.
  - `dndFiles` (page drops), `zone` (the dropzone, cut to `FilesLimit`), `folderFiles`/`folder` (Add folder and the subfolder field) are the dialog's state.
  - `subs[t]` is a `submit()` call. It snapshots the location, the subfolder and the file lists, then awaits one call per step (`SubmitCall`): a `createFolder` for every parent folder, shallowest first (`SortedDirs`), then each `uploadFile`. A rejection ends the task; a non-2xx answer is not looked at. `SubmitEnd` is the `refresh()` and `handleClose()` that follow.
  - `text` is the text-file dialog: open, the name typed, and whether the content field is empty. `IsValid` is the guard of its Submit button.
  - `pending` holds the text-file dialog's submits in flight; `TextDone` completes any of them, in any order.
  - `call`, `made` and `failed` are ghosts: the call just sent, the folders created, and the submits that saw a failure.
- **`Auth.tla`** models sign-in: `LoginPage`'s form, `api/auth.ts` `login` (the login call, then `/me`), `AuthContextWrapper` and the tab's reload.
  - `token` is the React state, `stored` the sessionStorage copy; `attempt` is the call in flight.
  - `Account` maps each email to admin, member, unverified or unknown; `Friendly` is the message mapping of `login`, `ErrorOf` its reading of an error body.
  - `RemoteFaults` has "reject" (the fetch rejects: "Failed to fetch") and "http" (an error page with no JSON body, whose `statusText` is the message).
  - `menu` and `dialog` are the settings menu of `nav/Settings.tsx` and the dialog it opened; Logout is its last item.
  - The filer calls carry no token, so the sign-in only gates what the browser renders.
  - The Cluster Info dialog is here too, beside the menu that opens it. `FetchInfo` is its effect on `open`: each opening makes a `getClusterInfo` call, named by the opening (`openings`, `calls`). `ClusterAnswered(n)` is the master's answer. `ClusterInfoOf` gives the counts `getClusterInfo` computes from the master's layout (`master`, one of `Topologies`), and `Zeros` is what it returns when the fetch rejects or the body is not JSON. Either one becomes `clusterInfo`. `ClusterChange` is the cluster changing under the dialog. `Unmount` drops the calls still awaiting and the shown info when Settings unmounts at logout or reload. `shownCall` is a ghost: the opening whose answer is shown.
  - `Session == INSTANCE AuthSession WITH ...` maps the detailed state onto the abstract one: the session is `token`, a sign-in is in progress while `loading` is set, and the users allowed a session are the admin accounts.
- **`AuthSession.tla`** is the abstract specification of sign-in: no session or an admin's, a sign-in that begins from no session and ends (weak fairness) in an admin's session or none, sign-out, and a reload that drops a sign-in in progress. `Auth` is checked to implement it.
- **`Marquee.tla`** models the marquee of `content/cardview/CardView.tsx` on a grid of integer screen coordinates.
  - `dragStart`, `marquee` and `selected` are the component's state and the selection; `Cell[c]` is the rectangle of a card's grid cell.
  - `MouseDown` (the empty area only, `OnCard`), `MouseMove` (past `Far`, the `>= MARQUEE_MIN_DELTA` test) and `MouseUp` (the recompute from the last marquee) are the three handlers; `RectsOverlap` is `rectsOverlap`.
  - `drawn` (ghost) is the last box drawn. The reference for the selection is the set of cards whose cell shares a point with it.
  - The card and its cell are one rectangle here: the press test uses the card element, the overlap its parent cell.
- **`Download.tla`** extends `Filer` and models the downloads of the selection: the footer's `handleDownload` and `downloadSelected` of the card view's menu.
  - `dl[t]` is a call: the file items it keeps, the index of the next `getRawContent`, and the zip entries read so far (`ZipFile` replaces an entry of the same name).
  - `downloading` is the footer's flag; `Finish` is its `finally`. `downloadSelected` has no flag.
  - `UserDelete` is a delete the user runs alongside (no mutual exclusion between operations).
  - `saved` (ghost) holds the files the browser saved. The footer's single-file case opens the URL in a new tab and saves nothing here.
- **`Pagination.tla`** models the footer's `TablePagination` against the DataGrid's 0-based page: the arrows call `setPage(value - 1)`, and the rows-per-page select only sets the footer's own state and page 0. `SetPage` keeps the page within the grid's pages, as the grid's state does; `asked` (ghost) is the page the footer asked for.
- **`CardMenu.tla`** models the card view's cards: the right-click menus of `FileCard` and `FolderCard`, `DeleteItemConfirmation`, the double click, and the parts of `SelectionContextWrapper` they use.
  - `listed` is the last listing: the cards rendered. A deleted entry stays listed until the next `refresh()`, a change of location, or `closeAlert`.
  - `menu` and `itemDel` are state of a card (`Mounted`): they go when a listing drops the card.
  - A menu or dialog is modal (`Free`): clicks and the Escape key reach the cards only when none is open; the document's Delete key handler still runs.
  - `dels[d]` is a `del()`: the card's own (one `deleteItem`, recursive for a folder) or the bulk one over the selection; the last answer is followed by `refresh()` and the dialog's close.
- **`MC_CopyTask.tla`**, **`MC_DetailsView.tla`**, **`MC_Profile.tla`** and **`MC_FileManager.tla`** fix small namespaces for TLC.
  - The MC_PathUtil cfgs set `Chars` to `{"/", ".", "a"}` directly, with no MC module: every shape of segment (`""`, `.`, `..`, a name) and of prefix (`/`, `./`, `../`) occurs.
  - MC_CopyTask: `/a` holding file `/a/f` and the empty file `/a/e`, and an empty `/b`. In copy_pass `/a/e` has no chunks, so the listing calls it a folder and the copy creates a folder in its place.
  - MC_FileManager: `/a` holding `/a/f`. The user can go to `/`, to `/a`, and to any folder card shown.
  - MC_Upload: files `f1` (no folder) and `f2` (in folder `d/e`), locations `/` and `/a`.
  - MC_Auth: one account of each kind, all with password `pw1`, and two layouts of the master: one datacenter with one rack, a node and a volume, and the same with a second rack whose node holds two volumes.
  - MC_CardMenu: `/` holding folder `/a` and files `/f`, `/h`; `/a` holding `/a/g`.
  - MC_Marquee: two card cells on a 5 x 5 grid.
  - MC_Download: `/` holding files `/a`, `/b` and folder `/d`; the selections are both files, one, or files with the folder.
  - MC_Pagination.cfg (no MC module, the constants are numbers): 30 rows and a grid fitting 12 of them.

## Runs

| Run | cfg | Expect | What it shows |
|---|---|---|---|
| copy_pass | MC_CopyTask.cfg | pass | With rejects and errors, copying `/a` (a file and an empty file) into `/b` writes only below `/b/a` (`WritesOnlyUnderDest`) and always ends (`CopyTerminates`). |
| fm_selection | MC_FileManager_sel.cfg | pass | Navigation, back, reloads, every selection gesture, copy/cut and bulk and card deletes, all with faults: the path a reload reopens is always the folder open, whatever step it follows, though `updateLocation` writes localStorage before its state update and `goBack` inside its updater (`StoredIsCurrent`); no entry is selected twice (`NoDuplicateSelection`). |
| fm_paste | MC_FileManager.cfg | pass | Every paste ends (`PasteTerminates`), under weak fairness of the task and network steps only. |
| fm_cut | MC_FileManager_cut.cfg | violation | `CutKeepsData`: cut `/a/f` and paste it in `/a`. The upload lands on the item itself, and the item is then deleted. |
| dv_pass | MC_DetailsView.cfg | pass | With rejects and errors, every footer copy or move ends and clears the dialog's `loading` in its `finally` (`LoadingReleased`). |
| path_pass | MC_PathUtil.cfg | pass | For every entry path and every absolute destination, `copyFile` and `copyDirectory` address `destDir/name` after URL parsing (`CopyLandsInDest`), with or without a trailing slash and with dot segments. A destination typed without a leading `/` is passed on as typed by `handleCopy` and is glued to the connection string; it forms another URL and is outside this check. |
| profile_pass | MC_Profile.cfg | pass | Two overlapping bookmark edits, the profile load, the favorites list and its menus, rejects and errors: the favorites list never holds a path twice (`NoDuplicateBookmarks`). |
| upload_pass | MC_Upload.cfg | pass | Every parent folder of a file below the submit's base path is created before the file's upload (`DirsCreatedFirst`), with rejects, errors and the user navigating or editing the subfolder field during the loop; a base path read afresh after an await would break it. |
| auth_pass | MC_Auth.cfg | pass | Only an admin account ends up signed in, and the token and sessionStorage agree (`SessionIsAdmin`). `Auth` implements `AuthSession` under the refinement mapping (`ImplementsSession`): every sign-in ends, and the session only changes as the abstract one may, with the settings menu, logout and reloads. Each opening of the cluster dialog, while it stays open, comes to show the answer of its own call, a failed fetch included (`ClusterInfoRefreshed`). |
| cardmenu_stale | MC_CardMenu_stale.cfg | violation | `SelectionListed`: a card selected again while a bulk delete awaits stays selected after the refresh removed it from the listing (spec 4.2: nothing acts on a stale selection). |
| marquee_pass | MC_Marquee.cfg | pass | During a marquee drag and after its release, the selection is exactly the cards whose cell shares a point with the last box drawn; a press on the empty area empties it (`SelectionIsBox`). This checks `rectsOverlap` against point sets, edges included. |
| download_pass | MC_Download.cfg | pass | The footer's `downloading` is set exactly while one of its zips runs (`DownloadingWhileZipping`), through rejected and failed reads and a delete alongside. |

### Further traces

Each of these cfgs checks one property that TLC finds violated. Each is the
trace behind a finding in `PROJECT.json` and can be rerun the same way as the
runs above. The runs list keeps two violations, a cut item lost and a stale selection,
beside the passing runs.

| cfg | What TLC finds |
|---|---|
| MC_CopyTask_mirror.cfg | `MirrorsSource` fails in 5 steps: the copy creates `/b/a/a`, recursing into the source through the listing's parent entry. |
| MC_FileManager_clip.cfg | `ClipboardSurvivesPaste`: a copy made while a paste runs is cleared when the paste ends. |
| MC_FileManager_dest.cfg | `PasteSingleDestination`: navigating between two items of a paste sends the second item elsewhere. |
| MC_FileManager_stale.cfg | `ListingShowsLocation`: the load of `/a` finishes after the load of `/`, so `/a`'s listing is shown at `/`. |
| MC_DetailsView_move.cfg | `MoveDeletesOnlyCopied`: moving `/g` into `/` uploads it onto itself and then deletes it. |
| MC_DetailsView_stale.cfg | `FooterShowsSelection`: tick folder `/a` at `/`, then open it. Row 1 still exists (the parent entry), so the footer keeps `/a`, the folder the user is now in, and its Delete would delete that folder recursively. |
| MC_PathUtil_full.cfg | `FullPathResolves`: `getFullPath("../", "/a/")` names `/a`, not `/`. |
| MC_PathUtil_bar.cfg | `LocationBarResolves`: `.` typed in the location bar at `/a` opens `/`. |
| MC_Profile_settings.cfg | `SettingsPreserved`: the same early favorite uploads the default settings over the saved ones. |
| MC_Upload_unsent.cfg | `SubmitEndKeepsUnsent`: files dropped during a submit are not in its snapshot, yet `handleClose` at its end clears them. |
| MC_Upload_drop.cfg | `DropKeepsListed`: a second page drop replaces the dropzone's list instead of adding to it. |
| MC_Upload_failure.cfg | `UploadStopsAtFailure`: a failed `createFolder` (non-2xx) is followed by the uploads into the folder that is not there. |
| MC_Auth_message.cfg | `FailureShowsMessage`: an error page with an empty `statusText` leaves the form with no message. |
| MC_FileManager_sel.cfg, with `INVARIANT HistoryTopNotCurrent` in place of its properties | `HistoryTopNotCurrent`: the Home button pressed at `/` pushes `/` onto the history, so the folder open is on top of it (spec 3 says it never is). |
| MC_Auth.cfg, with `INVARIANT ClusterShowsLatest` in place of its properties | `ClusterShowsLatest`: the dialog is opened, closed and opened again, and the first call's answer lands after the second. The open dialog then shows the older answer: a former layout, or the zeros of a fetch that failed. |
| MC_CardMenu_delete.cfg | `MenuDeleteIncludesCard`: select `/f`, right-click `/a`, Delete: the bulk dialog opens for `/f` and `/a` is not deleted. |
| MC_FileManager_parent.cfg | `SelectionBelowLocation`: at `/a` the parent card `/` can be selected, and deleting the selection would delete everything. |
| MC_Profile_lost.cfg | `BookmarksNotLost`: a favorite added before the profile file has loaded uploads a list without the saved bookmarks. |
| MC_Profile_menu.cfg | `MenuOnClickedBookmark`: with the menu open on `/a`, an add's upload finishes and sets a list with `/b` at that index; Remove would remove `/b`. |
| MC_Marquee_threshold.cfg | `PromotedBeyondThreshold`: a move of exactly the threshold already draws the marquee (spec 4.3 says it must exceed it). |
| MC_Profile_tabs.cfg | `LocalShownIsStorage` fails in 3 steps. The other tab writes `["/a"]`. This tab, not yet told, adds `/b`, and localStorage holds `["/b"]`. The late event then sets this tab's list to `["/a"]`, so this tab's next edit writes a list without `/b`. |
| MC_Download_body.cfg | `SavedAreFiles`: `/a` is deleted after the menu's download started and before it read `/a`; the filer's error page is saved as `/a`. |
| MC_Pagination.cfg | `ShowsAskedPage`: the next-page arrow asks for page 1 and the grid stays on page 0. |

Each property of a passing run has a mutant in `PROJECT.json`: an operator next
to the definition it replaces, which changes the code the way a plausible bug
would. TLC finds the property violated under the mutant.

## Bounds

Every bound is a constant named in the cfg.

- **Namespace.** `Names` has 2 names, `Content` has 1 value, and `MaxDepth` is 2 in FileManager and 4 in CopyTask.
  - These sizes are enough for a folder with a file, a copy into itself, a copy into a sibling, and the recursion reaching the depth limit.
- **`MaxHistory = 1`.** One back step exercises goBack and its write to localStorage.
- **`MaxFetches` (1 or 2).** This bounds the user's loads in flight. A navigation or a closed alert waits while the bound is reached.
  - The tasks' own refreshes never wait, so a task refresh can overlap a user load even with 1.
  - The stale-listing run uses 2, for two user navigations.
- **`MaxPastes`.** This is the number of pastes in a behaviour.
- **`MaxOps = 1`** in DetailsView's pass run: one footer operation (copy, move or delete) per behaviour, with the user free to navigate, select and use the dialogs around it. The violation runs use 2. DetailsView's namespace adds a file `/g` at the root, so that `/` and `/a` both have a row 2.
- **Strings up to 4 characters** over `/`, `.` and `a`. This covers the prefixes `/`, `./` and `../`, the segments `""`, `.`, `..` and a name, and a trailing slash, which are every branch of `getFullPath` and `getName`.
- **Profile.** Two bookmark paths and two edit tasks (`WTasks`): enough for two edits awaiting at once and a remove racing an add. The file starts absent, empty or holding one bookmark. The other tab makes one write (`MaxTabWrites`), which is enough for its event to arrive after this tab's own write. That write is any list without a repeated path.
- **`MaxSelection`.** This bounds how many items the user selects. It is 2 where two items matter (selection, destination split) and 1 elsewhere.

- **Upload.** One submit task, two submits in turn (`MaxSubmits`), one file per gesture (`MaxBatch`), a dropzone of 1 (`FilesLimit`, 500 in the code) and one folder file (`MaxFolderFiles`). A file with two parent folders gives a submit three calls, enough for a failure between two of them and for the user to act in between. Two tasks at once exceed 18 million states.
- **Auth.** Four accounts (one per outcome of `/me`) and two passwords. Two openings of the cluster dialog (`MaxOpenings`) are enough for two calls to be in flight at once and to land in either order. The two layouts of the master differ in every count but the datacenters, and one rack holds two volumes, so the sums are exercised.
- **CardMenu.** Three cards at the root, so that a card can be outside a selection of two, and a folder with a file for the recursive delete. One `del()` at a time (`DelTasks`); with two the model exceeds 16 million states.

- **Marquee.** Coordinates 0..4 and `MinDelta = 2` (5 px in the code): a drag can stop short of, reach exactly, and pass the threshold, and a box can touch a cell at its edge, overlap it, or miss it.
- **Download.** One footer call, one menu call, one delete alongside (`MaxDeletes`): enough for a file to go between a download's start and its read, and for both kinds of call to run at once.
- **Pagination.** 30 rows, 12 fitting the grid, and the footer's 10 per page: the grid has three pages, so the arrows have somewhere to go.

These bounds keep the composed model within a few million states. The selection
orderings and the clipboard copies of them dominate the state count.

## Fairness

`Spec` has weak fairness on each paste task's steps, each delete task's steps and
the listing loads; `Profile` has it on each upload, on the profile load and on the delivery of storage events; `Upload` on each submit's steps and each text-file submit; `Auth` on the two API answers and on the master's answer to each cluster call; `CardMenu` on each `del()` step and on `closeAlert`; `Download` on each call's reads and save, which the snackbar's 5 s `autoHideDuration` calls. In other words, the filer eventually answers every fetch, and
the event loop eventually resumes every awaiting task.

User actions have no fairness: nothing obliges the user to act.

## Not modelled yet

- The profile list (`getProfiles`) and `switchProfile`, `updateSetting`, `makeNewProfile`: nothing calls them.
- The uploaded bytes, and the text file's content beyond whether it is empty.
- A second `del()` while the first awaits in CardMenu (the bound); FileManager has two.

Left out for good:

- `dialogs/NewFolderDialog`, `content/cardview/ImageCard` and `dialogs/SettingsDialog`: imported but not in the repository.
- The About dialog and the Help and GitHub links: static text and new pages. The settings dialog is not in the repository.
- Theming and static dialogs.
- The dot-file filter of the listing: no model name starts with a dot.
- The empty-area context menu of the card view: it opens the create and upload dialogs, one of which is not in the repository.
- The footer's single-file download and the card's Download: the browser saves what `getRawContent` or the URL returns; `Download` checks the multi-step case.
