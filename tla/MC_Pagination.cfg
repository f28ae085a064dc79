\* 30 rows, 12 of them fitting the grid; the TablePagination defaults.
CONSTANTS
    RowCount = 30
    PageSize = 12
    PerPageOptions = {10, 25, 50, 100}
SPECIFICATION Spec
INVARIANT ShowsAskedPage
