CONSTANTS
    MaxRecords = 2
    s1 = s1  s2 = s2  s3 = s3
    Sensors = {s1, s2, s3}
    Lists <- MCLists
    SensorOf <- MCSensorOf
    MaxQty = 2
    None = None
SPECIFICATION CsvSpec
INVARIANTS IntactRecordsWritten CutOutcome ReadingsInTheirColumns
