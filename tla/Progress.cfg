\* A position past its stop, the news source and the worker.
SPECIFICATION ProgressSpec
PROPERTIES
    KeepsTrying
    FeedComesBack
    EveryItemDecided
\* A worker that was stopped stays stopped.
CHECK_DEADLOCK FALSE
