SPECIFICATION Spec
CONSTANTS
    a = a
    i1 = i1
    i2 = i2
    t1 = t1
    t2 = t2
    u1 = u1
    NotFound = NotFound
    None = None
    MaxDownloads = 1
    MaxFailures = 0
    Names <- OneName
    Vers <- OneVersion
    Uploads <- OneUpload
    Tasks <- TwoTasks
    Instances <- OneInstance
    Settable <- MCSettable
PROPERTIES
    StatusIsKept
