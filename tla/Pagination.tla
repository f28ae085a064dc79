------------------------------ MODULE Pagination ------------------------------
(***************************************************************************)
(* The details view's pagination: the DataGrid (autoPageSize) shows the    *)
(* rows of its 0-based page, and the custom footer (DetailsFooter in       *)
(* content/DetailsView.tsx) renders a TablePagination that reads the       *)
(* grid's page and row count and, on its arrows, calls                     *)
(* apiRef.setPage(value - 1), where value is the 0-based page the arrow    *)
(* asks for.  The footer's rows-per-page select only changes its own state *)
(* and returns the grid to page 0.                                          *)
(***************************************************************************)
EXTENDS Integers

CONSTANTS
    RowCount,     \* state.pagination.rowCount: the rows of the listing
    PageSize,     \* the grid's page size, fitted to its height (autoPageSize)
    PerPageOptions \* TablePagination's rows-per-page choices

VARIABLES
    page,         \* state.pagination.page of the grid
    rowsPerPage,  \* the footer's rowsPerPage
    asked         \* (ghost) the page the footer's arrows last asked for

vars == <<page, rowsPerPage, asked>>

\* the grid's last page
LastPage == IF RowCount = 0 THEN 0 ELSE (RowCount - 1) \div PageSize

\* setPage: the grid keeps its page between 0 and its last page
SetPage(p) == page' = IF p < 0 THEN 0 ELSE IF p > LastPage THEN LastPage ELSE p

\* the last page TablePagination computes from the footer's rowsPerPage
FooterLastPage == IF RowCount = 0 THEN 0 ELSE (RowCount - 1) \div rowsPerPage

Init == page = 0 /\ rowsPerPage = 10 /\ asked = 0

\* onPageChange(event, value) => apiRef.current?.setPage(value - 1)
PageChange(value) == SetPage(value - 1) /\ asked' = value /\ UNCHANGED rowsPerPage

\* the next-page arrow, enabled before the footer's last page
NextPage == page < FooterLastPage /\ PageChange(page + 1)

\* the previous-page arrow, enabled after the first page
PrevPage == page > 0 /\ PageChange(page - 1)

\* handleChangeRowsPerPage: setRowsPerPage(value), setPage(0)
ChangeRowsPerPage(r) ==
    /\ r # rowsPerPage /\ rowsPerPage' = r /\ SetPage(0) /\ asked' = 0

Next == NextPage \/ PrevPage \/ \E r \in PerPageOptions : ChangeRowsPerPage(r)

Spec == Init /\ [][Next]_vars

(* The grid shows the page the footer's arrows asked for: after the next-  *)
(* page arrow the grid moves to the next page (TablePagination passes the  *)
(* 0-based page to onPageChange, and the footer subtracts one).            *)
ShowsAskedPage == page = asked
=============================================================================
